---- MODULE Spec2Model ----
(***************************************************************************)
(* Identity service (locknex): login / logout / refresh-token sessions,    *)
(* JWT access tokens and the current-user gate of protected endpoints;     *)
(* staff records, the restriction engine and the audit log.                *)
(*                                                                         *)
(* The store is PostgreSQL, the dialect the models are written for         *)
(* (partial unique indexes, native enum columns).                          *)
(*                                                                         *)
(* Time is counted in clock ticks; TicksPerSecond ticks make one second.   *)
(* Python datetimes keep sub-second resolution (Session.expires_at), JWT   *)
(* "exp" claims are whole seconds (jose converts with timegm).             *)
(***************************************************************************)
EXTENDS Integers, Sequences, FiniteSets, TLC

(* ------------------------------ bounds -------------------------------- *)

\* Rows the sessions table may hold before logins are no longer explored.
MaxSessions == 2

\* Number of times the clock is advanced in one behaviour.
MaxAdvance == 2

\* Resolution of the clock: ticks per second (10^6 in the program).
TicksPerSecond == 2

\* Staff rows and create_staff calls in flight, together.
MaxStaff == 2

\* Rows the kyc_verifications table and the api_keys table may each hold.
MaxOwned == 1

\* Users deleted in one behaviour.
MaxDeleted == 1

\* Audit rows the direct calls of log_activity may add
MaxLogs == 2

\* Failed logins the history counts, for each email
MaxAttempts == 6

\* invalidate_session calls run step by step
MaxCalls == 2

(* ------------------------ program constants --------------------------- *)

\* auth_route.login: access_token_expires = timedelta(minutes=30)
ACCESS_TOKEN_EXPIRE_MINUTES == 30

\* auth_route.login: refresh_token_expires = timedelta(days=7)
REFRESH_TOKEN_EXPIRE_DAYS == 7

\* settings.JWT_SECRET_KEY
JWT_SECRET_KEY == "supersecret"

\* datetime.timedelta, in ticks
timedelta_minutes(m) ==
    m * 60 * TicksPerSecond

timedelta_days(d) ==
    d * 24 * 60 * 60 * TicksPerSecond

\* calendar.timegm(dt.utctimetuple()): a datetime as whole seconds (truncated)
timegm(t) ==
    t \div TicksPerSecond

(* ---------------------------- datetimes ------------------------------- *)

\* A datetime: its wall-clock reading in ticks, and its tzinfo (aware with
\* an offset from UTC in ticks, or naive)
datetime(wall, aware, utcoffset) ==
    [wall |-> wall, aware |-> aware, utcoffset |-> utcoffset]

\* No datetime at all
NoDatetime == datetime(0, FALSE, 0)

\* timedelta(hours=h), in ticks
timedelta_hours(h) ==
    h * 60 * 60 * TicksPerSecond

\* dt.replace(tzinfo=timezone.utc): the same wall-clock reading, in UTC
replace_tzinfo_utc(dt) ==
    [dt EXCEPT !.aware = TRUE, !.utcoffset = 0]

\* The instant an aware datetime names, in ticks of UTC: what a
\* DateTime(timezone=True) column keeps of it
timestamptz(dt) ==
    dt.wall - dt.utcoffset

\* The datetime the driver hands back for a DateTime(timezone=True) column:
\* the instant, in UTC
from_timestamptz(instant) ==
    datetime(instant, TRUE, 0)

(* ----------------------------- values --------------------------------- *)

None == [kind |-> "none", val |-> 0]

\* models.user_model.UserStatus
UserStatus == {"ACTIVE", "INACTIVE", "SUSPENDED", "PENDING_KYC", "KYC_REJECTED"}

\* str(user.id): the text form of a UUID
str_uuid(id) ==
    [kind |-> "uuid", val |-> id]

\* a string that is not the text form of a UUID (tests use "auth@test.com")
NotAUuid == [kind |-> "text", val |-> 0]

\* uuid.UUID(text): the id, or ValueError (None)
UUID(text) ==
    IF text.kind = "uuid" THEN text.val ELSE 0

\* passlib hash / verify, an opaque one-way hash with a matching verify
hash_password(password) ==
    <<"argon2", password>>

verify_password(plain_password, hashed_password) ==
    hashed_password = hash_password(plain_password)

\* A token: the claims jose signs, and the key that signed them.
NoToken == [sub |-> None, exp |-> 0, key |-> ""]

\* tests: the header value "invalid_token", no JWT at all
GarbageToken == [sub |-> NotAUuid, exp |-> 0, key |-> "invalid_token"]

\* jose.jwt.encode(claims, key): "exp" datetimes become whole seconds
jwt_encode(sub, exp, key) ==
    [sub |-> sub, exp |-> timegm(exp), key |-> key]

\* utils.jwt.create_access_token(data, expires_delta) at clock time t
create_access_token(sub, expires_delta, t) ==
    jwt_encode(sub, t + expires_delta, JWT_SECRET_KEY)

\* utils.jwt.create_refresh_token(data, expires_delta) at clock time t
create_refresh_token(sub, expires_delta, t) ==
    jwt_encode(sub, t + expires_delta, JWT_SECRET_KEY)

\* jwt_decode with the expiry check left out (options verify_exp = False)
jwt_decode_without_exp(token, key, t) ==
    IF token.key # key THEN [ok |-> FALSE, err |-> "JWTError", sub |-> None]
    ELSE [ok |-> TRUE, err |-> "", sub |-> token.sub]

\* jose.jwt.decode(token, key) at clock time t: the signature is checked
\* first, then exp against the clock in whole seconds (exp < now fails).
jwt_decode(token, key, t) ==
    IF token.key # key THEN [ok |-> FALSE, err |-> "JWTError", sub |-> None]
    ELSE IF token.exp < timegm(t)
         THEN [ok |-> FALSE, err |-> "ExpiredSignatureError", sub |-> None]
         ELSE [ok |-> TRUE, err |-> "", sub |-> token.sub]

(* ------------------------------ state --------------------------------- *)

VARIABLES
    users,          \* table users: set of rows
    sessions,       \* table sessions: sequence of rows, in insertion order
    activity_logs,  \* table activity_logs: sequence of rows
    now,            \* the clock, in ticks
    advances,       \* how many times the clock was advanced
    issued,         \* token pairs that successful logins returned to clients
    resp,           \* the response of the last request
    staffs,         \* table staffs: set of rows
    pending,        \* create_staff calls between their check and their commit
    verdict,        \* the outcome of the last staff or restriction call
    failed_attempts, \* history: failed logins so far, by email
    invalidations,  \* invalidate_session calls run step by step: what each
                    \* read, and its outcome once it has committed
    kyc_verifications, \* table kyc_verifications: sequence of rows
    api_keys,       \* table api_keys: sequence of rows
    deleted_users   \* history: the users deleted, each with the number of
                    \* KYC and audit rows it had

vars == <<users, sessions, activity_logs, now, advances, issued, resp,
          staffs, pending, verdict, failed_attempts, invalidations,
          kyc_verifications, api_keys, deleted_users>>

\* The tables of the rows users own besides sessions and audit rows, and
\* the history of deletions
owned_vars == <<kyc_verifications, api_keys, deleted_users>>

\* The staff side of the state, which the account operations leave alone
staff_vars == <<staffs, pending, verdict>>

\* create_user requests the model explores: UserCreate payloads
Accounts ==
    { [username |-> "auth_tester", email |-> "auth@test.com",
       phone_number |-> "+233200000000", password |-> "strongpass123"],
      [username |-> "second_user", email |-> "second@test.com",
       phone_number |-> "000000000", password |-> "strongpass123"] }

Emails == {a.email : a \in Accounts} \cup {"nope@test.com"}

Usernames == {a.username : a \in Accounts}

Passwords == {a.password : a \in Accounts} \cup {"wrong"}

NoUser == [id |-> 0, username |-> "", email |-> "", phone_number |-> "",
           hashed_password |-> <<>>, status |-> "", is_superuser |-> FALSE]

\* A field of a UserUpdate payload that is None
Unset == "NONE"

\* UserUpdate(): no field set
NoUpdate == [username |-> Unset, email |-> Unset, phone_number |-> Unset,
             password |-> Unset]

\* A response: the HTTP status and detail, and with them the user and the
\* tokens the request was about (login: the tokens it returns); for a direct
\* create_session the expiry of its session_in and the expiry of the
\* SessionResponse it returns; for UserService.update_user its payload
Response(op, status, detail) ==
    [op |-> op, status |-> status, detail |-> detail,
     user_id |-> 0, access_token |-> NoToken, refresh_token |-> NoToken,
     session_in |-> NoDatetime, expires_at |-> NoDatetime, user_in |-> NoUpdate]

(* ------------------------------ staff --------------------------------- *)

\* The members of StaffRole, by name (the models and the schemas agree on
\* the names and differ in the values)
StaffRole ==
    {"SUPERUSER", "ADMIN", "SUPPORT", "COMPLIANCE", "MANAGER", "GENERAL"}

\* The members of Department, by name
Department ==
    {"SUPERUSER", "FINANCE", "MARKETING", "SUPPORT", "COMPLIANCE", "MANAGEMENT",
     "GENERAL"}

\* models.staff_model: the value of a StaffRole or Department member, which
\* is the label the database column stores and accepts
model_value(name) ==
    CASE name = "SUPERUSER" -> "superuser"
      [] name = "ADMIN" -> "admin"
      [] name = "SUPPORT" -> "support"
      [] name = "COMPLIANCE" -> "compliance"
      [] name = "MANAGER" -> "manager"
      [] name = "GENERAL" -> "general"
      [] name = "FINANCE" -> "finance"
      [] name = "MARKETING" -> "marketing"
      [] name = "MANAGEMENT" -> "management"

\* schemas.staff_schema.StaffRole: the value of a member
schema_role_value(name) ==
    CASE name = "SUPERUSER" -> "superuser"
      [] name = "ADMIN" -> "admin"
      [] name = "SUPPORT" -> "support"
      [] name = "COMPLIANCE" -> "compliance"
      [] name = "MANAGER" -> "manager"
      [] name = "GENERAL" -> "General"

\* schemas.staff_schema.Department: the value of a member
schema_department_value(name) ==
    CASE name = "SUPERUSER" -> "superuser"
      [] name = "FINANCE" -> "Finance"
      [] name = "MARKETING" -> "Marketing"
      [] name = "SUPPORT" -> "Support"
      [] name = "COMPLIANCE" -> "Compliance"
      [] name = "MANAGEMENT" -> "Management"
      [] name = "GENERAL" -> "General"

\* No staff row: actor=None, or a query that found nothing
NoStaff == [id |-> 0, user_id |-> 0, role |-> "", department |-> ""]

\* The outcome of a staff or restriction call: the HTTP status and detail
\* (200: the call returned), and the arguments of the call
Verdict(op, status, detail) ==
    [op |-> op, status |-> status, detail |-> detail,
     actor |-> NoStaff, target |-> NoStaff, action |-> "",
     role |-> "", department |-> ""]

(* ------------------------ restriction engine --------------------------- *)

\* RestrictionService.SUPPORTED_ACTIONS
SUPPORTED_ACTIONS == {"view", "edit", "delete", "create"}

\* _superuser_rules without the block on editing one's own record
superuser_rules_editable(actor, target, action) ==
    IF actor.id # target.id
    THEN [status |-> 403, detail |-> "You cannot perform actions on another superuser."]
    ELSE [status |-> 200, detail |-> ""]

\* RestrictionService._superuser_rules(actor, target, action)
superuser_rules(actor, target, action) ==
    IF actor.id # target.id
    THEN [status |-> 403, detail |-> "You cannot perform actions on another superuser."]
    ELSE IF action = "edit"
    THEN [status |-> 403,
          detail |-> "Superuser's 'role' and 'department' cannot be edited."]
    ELSE [status |-> 200, detail |-> ""]

\* _admin_rules letting admins manage admins
admin_rules_among_admins(actor, target, action) ==
    IF actor.role \in {model_value("SUPERUSER"), model_value("ADMIN")}
    THEN [status |-> 200, detail |-> ""]
    ELSE [status |-> 403, detail |-> "Only superusers can manage admins."]

\* RestrictionService._admin_rules(actor, target, action)
admin_rules(actor, target, action) ==
    IF actor.role = model_value("SUPERUSER")
    THEN [status |-> 200, detail |-> ""]
    ELSE [status |-> 403, detail |-> "Only superusers can manage admins."]

\* _normal_staff_rules letting a staff member act on its own record
normal_staff_rules_with_self(actor, target, action) ==
    IF actor.role \in {model_value("ADMIN"), model_value("SUPERUSER")}
       \/ actor.id = target.id
    THEN [status |-> 200, detail |-> ""]
    ELSE [status |-> 403,
          detail |-> "You do not have permission to manage this staff member."]

\* RestrictionService._normal_staff_rules(actor, target, action)
normal_staff_rules(actor, target, action) ==
    IF actor.role = model_value("ADMIN")
    THEN [status |-> 200, detail |-> ""]
    ELSE IF actor.role = model_value("SUPERUSER")
    THEN [status |-> 200, detail |-> ""]
    ELSE [status |-> 403,
          detail |-> "You do not have permission to manage this staff member."]

\* RestrictionService.enforce(actor, target, action): 200 when it returns,
\* else the HTTPException it raises
enforce(actor, target, action) ==
    IF action \notin SUPPORTED_ACTIONS
    THEN [status |-> 400, detail |-> "Unsupported action"]
    ELSE IF target.role = model_value("SUPERUSER")
    THEN superuser_rules(actor, target, action)
    ELSE IF target.role = model_value("ADMIN")
    THEN admin_rules(actor, target, action)
    ELSE normal_staff_rules(actor, target, action)

\* User.staff_profile: the staff row of a user, or None
staff_profile(user) ==
    IF \E s \in staffs : s.user_id = user.id
    THEN CHOOSE s \in staffs : s.user_id = user.id
    ELSE NoStaff

Init ==
    /\ users = {}
    /\ sessions = <<>>
    /\ activity_logs = <<>>
    /\ now = 0
    /\ advances = 0
    /\ issued = {}
    /\ resp = Response("none", 0, "")
    /\ staffs = {}
    /\ pending = {}
    /\ verdict = Verdict("none", 0, "")
    /\ failed_attempts = [e \in Emails |-> 0]
    /\ invalidations = {}
    /\ kyc_verifications = <<>>
    /\ api_keys = <<>>
    /\ deleted_users = {}

(* --------------------------- audit logging ---------------------------- *)

\* log_activity raises instead of writing: with a current_user and a
\* target_user it asks RestrictionService.enforce for the action "view_logs"
log_activity_denied(target_user, current_user) ==
    /\ current_user # NoUser
    /\ target_user # NoUser
    /\ enforce(staff_profile(current_user), staff_profile(target_user),
               "view_logs").status # 200

\* utils.activity_logger.log_activity(db, target_user, activity_type,
\* current_user=...): nothing is written when current_user is None. The
\* session, login and user operations pass no current_user (their second
\* positional argument is target_user).
log_activity(logs, target_user, activity_type, current_user) ==
    IF current_user = NoUser
    THEN logs
    ELSE IF log_activity_denied(target_user, current_user)
    THEN logs
    ELSE Append(logs, [user_id |-> current_user.id, activity_type |-> activity_type])

\* The call the session, login and user code makes:
\* log_activity(db, actor, "type", request=request, description=...). The
\* actor is bound to target_user, and current_user keeps its default None.
audit(logs, actor, activity_type) ==
    log_activity(logs, actor, activity_type, NoUser)

(* ------------------------------ users --------------------------------- *)

\* select(User).where(User.email == email) ... scalar_one_or_none()
user_by_email(email) ==
    IF \E u \in users : u.email = email
    THEN CHOOSE u \in users : u.email = email
    ELSE NoUser

\* select(User).where(User.id == user_uuid) ... scalar_one_or_none()
user_by_id(id) ==
    IF \E u \in users : u.id = id
    THEN CHOOSE u \in users : u.id = id
    ELSE NoUser

\* BaseModel.id default uuid.uuid4: an id no row has had
new_id ==
    Cardinality(users) + Cardinality(deleted_users) + 1

\* UserService.create_user(db, user_in), called without current_user
create_user(user_in) ==
    /\ IF \E u \in users : u.username = user_in.username
       THEN /\ resp' = Response("create_user", 400, "Username already taken")
            /\ UNCHANGED users
       ELSE IF \E u \in users : u.email = user_in.email
       THEN /\ resp' = Response("create_user", 400, "Email already registered")
            /\ UNCHANGED users
       ELSE /\ users' = users \cup
                  { [id |-> new_id, username |-> user_in.username,
                     email |-> user_in.email,
                     phone_number |-> user_in.phone_number,
                     hashed_password |-> hash_password(user_in.password),
                     status |-> "PENDING_KYC", is_superuser |-> FALSE] }
            /\ resp' = [Response("create_user", 201, "") EXCEPT !.user_id = new_id]
    /\ activity_logs' = log_activity(activity_logs, NoUser, "create_user", NoUser)
    /\ UNCHANGED <<sessions, now, advances, issued>>
    /\ UNCHANGED staff_vars
    /\ UNCHANGED invalidations
    /\ UNCHANGED owned_vars
    /\ UNCHANGED failed_attempts

\* UserService.update_user(db, user, user_in, current_user) with a payload
\* that sets only status
update_user(id, status) ==
    /\ \E u \in users : u.id = id
    /\ LET user == user_by_id(id) IN
       /\ user.status # status
       /\ users' = (users \ {user}) \cup {[user EXCEPT !.status = status]}
       /\ resp' = [Response("update_user", 200, "") EXCEPT !.user_id = id]
    /\ activity_logs' = log_activity(activity_logs, NoUser, "update_user_success", NoUser)
    /\ UNCHANGED <<sessions, now, advances, issued>>
    /\ UNCHANGED staff_vars
    /\ UNCHANGED invalidations
    /\ UNCHANGED owned_vars
    /\ UNCHANGED failed_attempts

\* select(User).where(User.username == username) ... scalar_one_or_none()
user_by_username(username) ==
    IF \E u \in users : u.username = username
    THEN CHOOSE u \in users : u.username = username
    ELSE NoUser

\* select(User).where(User.phone_number == phone_number): whether a row
\* has it (the column is not unique)
phone_number_registered(phone_number) ==
    \E u \in users : u.phone_number = phone_number

\* UserService.get_user_by_id(db, user_id, current_user): the user, or the
\* error. The 404 and the 403 are raised inside the try block, and its
\* "except Exception" answers every exception with 500.
get_user_by_id(user_id, current_user) ==
    LET user == user_by_id(user_id)
        raised == IF user = NoUser
                  THEN [status |-> 404, detail |-> "User not found"]
                  ELSE IF user.is_superuser /\ user.id # current_user.id
                  THEN [status |-> 403, detail |-> "Cannot view superuser"]
                  ELSE [status |-> 200, detail |-> ""]
    IN  IF raised.status # 200
        THEN [status |-> 500, detail |-> "Error retrieving user", user |-> NoUser]
        ELSE [status |-> 200, detail |-> "", user |-> user]

\* A call of UserService.get_user_by_id
UserService_get_user_by_id(user_id, current_user) ==
    /\ LET got == get_user_by_id(user_id, current_user) IN
       resp' = [Response("get_user_by_id", got.status, got.detail)
                   EXCEPT !.user_id = user_id]
    /\ activity_logs' = audit(activity_logs, current_user,
                              IF resp'.status = 200 THEN "get_user_success"
                              ELSE "get_user_error")
    /\ UNCHANGED <<users, sessions, now, advances, issued>>
    /\ UNCHANGED staff_vars
    /\ UNCHANGED invalidations
    /\ UNCHANGED owned_vars
    /\ UNCHANGED failed_attempts

\* update_user's "Apply updates" taking the username of the payload too
apply_updates_with_username(user, user_in) ==
    [user EXCEPT
        !.username = IF user_in.username # Unset THEN user_in.username ELSE @,
        !.hashed_password = IF user_in.password # Unset
                            THEN hash_password(user_in.password) ELSE @]

\* update_user, "Apply updates": of the fields the model keeps only the
\* password is taken from the payload (is_verified, status and twofa_secret
\* are the others)
apply_updates(user, user_in) ==
    [user EXCEPT
        !.hashed_password = IF user_in.password # Unset
                            THEN hash_password(user_in.password) ELSE @]

\* update_user's email check finding no row
email_registered_never(email) ==
    FALSE

\* update_user: select(User).where(User.email == user_in.email) finds a row
email_registered(email) ==
    user_by_email(email) # NoUser

\* UserService.update_user(db, user, user_in, current_user) with a payload
\* of username, email, phone_number and password
UserService_update_user(user, user_in, current_user) ==
    /\ user \in users
    /\ LET answer(status, detail) ==
               [Response("UserService.update_user", status, detail)
                   EXCEPT !.user_id = user.id, !.user_in = user_in]
       IN  IF user.is_superuser /\ user.id # current_user.id
           THEN /\ resp' = answer(403, "Only the superuser can edit their own account")
                /\ UNCHANGED users
           ELSE IF /\ user_in.username # Unset
                   /\ user_in.username # user.username
                   /\ user_by_username(user_in.username) # NoUser
           THEN /\ resp' = answer(400, "Username already taken")
                /\ UNCHANGED users
           ELSE IF /\ user_in.email # Unset
                   /\ user_in.email # user.email
                   /\ email_registered(user_in.email)
           THEN /\ resp' = answer(400, "Email already registered")
                /\ UNCHANGED users
           ELSE IF /\ user_in.phone_number # Unset
                   /\ user_in.phone_number # user.phone_number
                   /\ phone_number_registered(user_in.phone_number)
           THEN /\ resp' = answer(400, "Phone number already registered")
                /\ UNCHANGED users
           ELSE /\ users' = (users \ {user}) \cup {apply_updates(user, user_in)}
                /\ resp' = answer(200, "")
    /\ activity_logs' = IF resp'.status = 403
                        THEN audit(activity_logs, current_user, "update_user_denied")
                        ELSE IF resp'.status = 200
                        THEN audit(activity_logs, current_user, "update_user_success")
                        ELSE activity_logs
    /\ UNCHANGED <<sessions, now, advances, issued>>
    /\ UNCHANGED staff_vars
    /\ UNCHANGED invalidations
    /\ UNCHANGED owned_vars
    /\ UNCHANGED failed_attempts

(* ------------------------ rows a user owns ---------------------------- *)

\* KYCService.submit_kyc(db, user, kyc_in): a KYC row is added for the
\* user, whose status becomes PENDING_KYC
KYCService_submit_kyc(user) ==
    /\ user \in users
    /\ Len(kyc_verifications) < MaxOwned
    /\ kyc_verifications' = Append(kyc_verifications,
                                   [user_id |-> user.id, status |-> "pending"])
    /\ users' = (users \ {user}) \cup {[user EXCEPT !.status = "PENDING_KYC"]}
    /\ resp' = [Response("submit_kyc", 200, "") EXCEPT !.user_id = user.id]
    /\ activity_logs' = audit(activity_logs, user, "kyc_submit_success")
    /\ UNCHANGED <<sessions, now, advances, issued, api_keys, deleted_users>>
    /\ UNCHANGED staff_vars
    /\ UNCHANGED invalidations
    /\ UNCHANGED failed_attempts

\* api_key_service.create_api_key(db, user_id, api_key_in): the INSERT fails
\* on a user_id that is no user's (foreign key), and the error is re-raised
create_api_key(user_id) ==
    /\ Len(api_keys) < MaxOwned
    /\ IF user_by_id(user_id) = NoUser
       THEN /\ resp' = [Response("create_api_key", 500, "Internal Server Error")
                           EXCEPT !.user_id = user_id]
            /\ UNCHANGED api_keys
       ELSE /\ api_keys' = Append(api_keys, [user_id |-> user_id, is_active |-> TRUE])
            /\ resp' = [Response("create_api_key", 201, "") EXCEPT !.user_id = user_id]
    /\ activity_logs' = audit(activity_logs, NoUser,
                              IF resp'.status = 201 THEN "api_key_create_success"
                              ELSE "api_key_create_error")
    /\ UNCHANGED <<users, sessions, now, advances, issued, kyc_verifications,
                   deleted_users>>
    /\ UNCHANGED staff_vars
    /\ UNCHANGED invalidations
    /\ UNCHANGED failed_attempts

\* The rows of a child table that name the user
children_of(rows, user_id) ==
    SelectSeq(rows, LAMBDA row : row.user_id = user_id)

\* relationship(..., cascade="all, delete-orphan"): the session deletes the
\* user's rows of the child table with the user
delete_children(rows, user_id) ==
    SelectSeq(rows, LAMBDA row : row.user_id # user_id)

\* nullify_children with passive_deletes: the rows are left to the
\* database, whose ON DELETE CASCADE removes them
nullify_children_passive(rows, user_id) ==
    SelectSeq(rows, LAMBDA row : row.user_id # user_id)

\* relationship(...) without a cascade: the session sets the foreign key of
\* the user's rows to NULL before it deletes the user
nullify_children(rows, user_id) ==
    [i \in DOMAIN rows |->
        IF rows[i].user_id = user_id
        THEN [rows[i] EXCEPT !.user_id = NoUser.id]
        ELSE rows[i]]

\* UserService.delete_user(db, user, current_user). staffs.user_id is NOT
\* NULL: the user of a staff row cannot be deleted (IntegrityError, 500)
UserService_delete_user(user, current_user) ==
    /\ user \in users
    /\ Cardinality(deleted_users) < MaxDeleted
    /\ LET answer(status, detail) ==
               [Response("delete_user", status, detail) EXCEPT !.user_id = user.id]
       IN  IF user.is_superuser /\ user.id # current_user.id
           THEN /\ resp' = answer(403, "Superuser cannot be deleted by others")
                /\ UNCHANGED <<users, sessions, activity_logs, owned_vars>>
           ELSE IF staff_profile(user) # NoStaff
           THEN /\ resp' = answer(500, "Error deleting user")
                /\ activity_logs' = audit(activity_logs, current_user,
                                          "delete_user_error")
                /\ UNCHANGED <<users, sessions, owned_vars>>
           ELSE /\ users' = users \ {user}
                /\ kyc_verifications' = delete_children(kyc_verifications, user.id)
                /\ activity_logs' = delete_children(activity_logs, user.id)
                /\ sessions' = nullify_children(sessions, user.id)
                /\ api_keys' = nullify_children(api_keys, user.id)
                /\ deleted_users' = deleted_users \cup
                      {[id |-> user.id,
                        kyc_verifications |-> Len(children_of(kyc_verifications, user.id)),
                        activity_logs |-> Len(children_of(activity_logs, user.id))]}
                /\ resp' = answer(204, "")
    /\ UNCHANGED <<now, advances, issued>>
    /\ UNCHANGED staff_vars
    /\ UNCHANGED invalidations
    /\ UNCHANGED failed_attempts

(* ----------------------------- sessions ------------------------------- *)

\* active_sessions without the is_valid=True filter
active_sessions_ignoring_validity(refresh_token, user_id) ==
    { i \in DOMAIN sessions :
        /\ sessions[i].user_id = user_id
        /\ sessions[i].refresh_token = refresh_token }

\* active_sessions without the user_id filter
active_sessions_of_any_user(refresh_token, user_id) ==
    { i \in DOMAIN sessions :
        /\ sessions[i].refresh_token = refresh_token
        /\ sessions[i].is_valid }

\* The rows select(UserSession).filter_by(user_id, refresh_token, is_valid=True)
\* finds: the indices of the matching rows
active_sessions(refresh_token, user_id) ==
    { i \in DOMAIN sessions :
        /\ sessions[i].user_id = user_id
        /\ sessions[i].refresh_token = refresh_token
        /\ sessions[i].is_valid }

\* Session.refresh_token is unique=True: the insert fails on a duplicate
refresh_token_taken(refresh_token) ==
    \E i \in DOMAIN sessions : sessions[i].refresh_token = refresh_token

\* create_session storing the row with is_valid = False
create_session_invalid(user_id, refresh_token, expires_at) ==
    IF refresh_token_taken(refresh_token)
    THEN [ok |-> FALSE, sessions |-> sessions]
    ELSE [ok |-> TRUE,
          sessions |-> Append(sessions,
              [user_id |-> user_id, refresh_token |-> refresh_token,
               is_valid |-> FALSE, expires_at |-> expires_at])]

\* SessionService.create_session(db, session_in, actor): the table after the
\* call and whether the call returned (ok) or raised (IntegrityError)
create_session(user_id, refresh_token, expires_at) ==
    IF refresh_token_taken(refresh_token)
    THEN [ok |-> FALSE, sessions |-> sessions]
    ELSE [ok |-> TRUE,
          sessions |-> Append(sessions,
              [user_id |-> user_id, refresh_token |-> refresh_token,
               is_valid |-> TRUE, expires_at |-> expires_at])]

\* normalize_expires_at reading a naive expiry as local time, one hour
\* ahead of UTC
normalize_expires_at_as_local(expires_at) ==
    IF ~expires_at.aware
    THEN [expires_at EXCEPT !.aware = TRUE, !.utcoffset = timedelta_hours(1)]
    ELSE expires_at

\* create_session, "Normalize expires_at timezone": a naive expiry gets UTC
\* attached, an aware one is left as it is
normalize_expires_at(expires_at) ==
    IF ~expires_at.aware
    THEN replace_tzinfo_utc(expires_at)
    ELSE expires_at

\* SessionService.create_session(db, session_in) called directly with a
\* session_in whose expiry may be naive or aware: the normalised expiry is
\* stored, the row is refreshed from the table and returned as a
\* SessionResponse
SessionService_create_session(user_id, refresh_token, expires_at) ==
    /\ Len(sessions) < MaxSessions
    /\ LET stored == timestamptz(normalize_expires_at(expires_at))
           created == create_session(user_id, refresh_token, stored)
           answer(status, detail) ==
               [Response("create_session", status, detail)
                   EXCEPT !.user_id = user_id, !.refresh_token = refresh_token,
                          !.session_in = expires_at]
       IN  IF ~created.ok
           THEN /\ resp' = answer(500, "Internal Server Error")
                /\ UNCHANGED sessions
           ELSE /\ sessions' = created.sessions
                /\ resp' = [answer(201, "") EXCEPT
                               !.expires_at = from_timestamptz(
                                   created.sessions[Len(created.sessions)].expires_at)]
    /\ activity_logs' = audit(activity_logs, NoUser,
                              IF resp'.status = 201 THEN "session_create_success"
                              ELSE "session_create_error")
    /\ UNCHANGED <<users, now, advances, issued>>
    /\ UNCHANGED staff_vars
    /\ UNCHANGED invalidations
    /\ UNCHANGED owned_vars
    /\ UNCHANGED failed_attempts

\* invalidate_row as a DELETE of the row
invalidate_row_by_delete(i) ==
    SubSeq(sessions, 1, i - 1) \o SubSeq(sessions, i + 1, Len(sessions))

\* invalidate_row with WHERE user_id = ... in place of WHERE id = ...
invalidate_rows_of_user(i) ==
    [j \in DOMAIN sessions |->
        IF sessions[j].user_id = sessions[i].user_id
        THEN [sessions[j] EXCEPT !.is_valid = FALSE]
        ELSE sessions[j]]

\* The UPDATE of invalidate_session: the row's is_valid becomes False
invalidate_row(i) ==
    [sessions EXCEPT ![i].is_valid = FALSE]

\* invalidate_session answering success when it finds no valid session
invalidate_session_idempotent(refresh_token, user_id) ==
    LET found == active_sessions(refresh_token, user_id) IN
    IF found = {}
    THEN [status |-> 200, detail |-> "", sessions |-> sessions]
    ELSE [status |-> 200, detail |-> "",
          sessions |-> invalidate_row(CHOOSE i \in found : TRUE)]

\* SessionService.invalidate_session(db, refresh_token, user_id, actor)
invalidate_session(refresh_token, user_id) ==
    LET found == active_sessions(refresh_token, user_id) IN
    IF found = {}
    THEN [status |-> 404, detail |-> "Session not found or already invalidated",
          sessions |-> sessions]
    ELSE [status |-> 200, detail |-> "",
          sessions |-> invalidate_row(CHOOSE i \in found : TRUE)]

\* commit_invalidation with "AND is_valid" in its WHERE clause and a check of
\* the row count: a row that is no longer valid is reported as not found
commit_invalidation_if_still_valid(i) ==
    IF sessions[i].is_valid
    THEN [status |-> 200, detail |-> "", sessions |-> invalidate_row(i)]
    ELSE [status |-> 404, detail |-> "Session not found or already invalidated",
          sessions |-> sessions]

\* invalidate_session from its UPDATE on: UPDATE sessions SET is_valid =
\* False WHERE id = session.id, commit, return. The row count is not looked at.
commit_invalidation(i) ==
    [status |-> 200, detail |-> "", sessions |-> invalidate_row(i)]

\* invalidate_session up to the end of its SELECT, as call number id: a
\* call that finds no valid session ends with 404; one that finds the row
\* goes on to its UPDATE. saw: the calls that had read this row and not
\* committed yet.
invalidate_session_read(id, refresh_token, user_id) ==
    /\ id \notin {c.id : c \in invalidations}
    /\ LET found == active_sessions(refresh_token, user_id)
           call == [id |-> id, refresh_token |-> refresh_token, user_id |-> user_id,
                    row |-> 0, status |-> 404, saw |-> {}]
       IN  IF found = {}
           THEN invalidations' = invalidations \cup {call}
           ELSE LET i == CHOOSE i \in found : TRUE IN
                invalidations' = invalidations \cup
                   {[call EXCEPT
                       !.row = i, !.status = 0,
                       !.saw = {c.id : c \in {d \in invalidations :
                                                d.row = i /\ d.status = 0}}]}
    /\ activity_logs' = IF active_sessions(refresh_token, user_id) = {}
                        THEN audit(activity_logs, user_by_id(user_id),
                                   "session_invalidate_failed")
                        ELSE activity_logs
    /\ UNCHANGED <<users, sessions, now, advances, issued, resp>>
    /\ UNCHANGED staff_vars
    /\ UNCHANGED failed_attempts
    /\ UNCHANGED owned_vars

\* invalidate_session from its UPDATE to its end, for a call that has read
invalidate_session_commit(call) ==
    /\ call \in invalidations
    /\ call.status = 0
    /\ LET done == commit_invalidation(call.row) IN
       /\ sessions' = done.sessions
       /\ invalidations' = (invalidations \ {call}) \cup
                               {[call EXCEPT !.status = done.status]}
    /\ activity_logs' = audit(activity_logs, user_by_id(call.user_id),
                              "session_invalidate_success")
    /\ UNCHANGED <<users, now, advances, issued, resp>>
    /\ UNCHANGED staff_vars
    /\ UNCHANGED failed_attempts
    /\ UNCHANGED owned_vars

\* session_expired counting the instant of expiry as expired
session_expired_at_boundary(expires_at, t) ==
    expires_at <= t

\* The expiry test of validate_refresh_token: expires_at_dt < now
session_expired(expires_at, t) ==
    expires_at < t

\* validate_refresh_token with an error of its own for an expired session
validate_refresh_token_naming_expiry(refresh_token, user_id) ==
    /\ LET found == active_sessions(refresh_token, user_id)
           answer(status, detail) ==
               [Response("validate_refresh_token", status, detail)
                   EXCEPT !.user_id = user_id, !.refresh_token = refresh_token]
       IN  IF found = {}
           THEN resp' = answer(401, "Invalid or expired refresh token")
           ELSE IF session_expired(sessions[CHOOSE i \in found : TRUE].expires_at, now)
           THEN resp' = answer(401, "Refresh token expired")
           ELSE resp' = answer(200, "")
    /\ activity_logs' = audit(activity_logs, user_by_id(user_id),
                              IF resp'.status = 200 THEN "session_validate_success"
                              ELSE "session_validate_failed")
    /\ UNCHANGED <<users, sessions, now, advances, issued>>
    /\ UNCHANGED staff_vars
    /\ UNCHANGED invalidations
    /\ UNCHANGED owned_vars
    /\ UNCHANGED failed_attempts

\* SessionService.validate_refresh_token(db, refresh_token, user_id), a
\* service call (no route uses it)
validate_refresh_token(refresh_token, user_id) ==
    /\ LET found == active_sessions(refresh_token, user_id)
           answer(status, detail) ==
               [Response("validate_refresh_token", status, detail)
                   EXCEPT !.user_id = user_id, !.refresh_token = refresh_token]
       IN  IF found = {}
           THEN resp' = answer(401, "Invalid or expired refresh token")
           ELSE IF session_expired(sessions[CHOOSE i \in found : TRUE].expires_at, now)
           THEN resp' = answer(401, "Invalid or expired refresh token")
           ELSE resp' = answer(200, "")
    /\ activity_logs' = audit(activity_logs, user_by_id(user_id),
                              IF resp'.status = 200 THEN "session_validate_success"
                              ELSE "session_validate_failed")
    /\ UNCHANGED <<users, sessions, now, advances, issued>>
    /\ UNCHANGED staff_vars
    /\ UNCHANGED invalidations
    /\ UNCHANGED owned_vars
    /\ UNCHANGED failed_attempts

(* ------------------------------- login -------------------------------- *)

\* login_blocked admitting ACTIVE users only
login_blocked_unless_active(status) ==
    status # "ACTIVE"

\* The status gate of UserService.authenticate_user and AuthService.login
login_blocked(status) ==
    status = "SUSPENDED"

\* authenticate_user with an answer of its own for an unknown email
authenticate_user_enumerating(email, password) ==
    LET user == user_by_email(email) IN
    IF user = NoUser
    THEN [status |-> 404, detail |-> "User not found", user |-> NoUser]
    ELSE IF ~verify_password(password, user.hashed_password)
    THEN [status |-> 401, detail |-> "Invalid credentials", user |-> NoUser]
    ELSE IF user.status = "SUSPENDED"
    THEN [status |-> 403, detail |-> "Account suspended", user |-> NoUser]
    ELSE [status |-> 200, detail |-> "", user |-> user]

\* UserService.authenticate_user(db, email, password): the user, or the error
authenticate_user(email, password) ==
    LET user == user_by_email(email) IN
    IF user = NoUser \/ ~verify_password(password, user.hashed_password)
    THEN [status |-> 401, detail |-> "Invalid credentials", user |-> NoUser]
    ELSE IF login_blocked(user.status)
    THEN [status |-> 403, detail |-> "Account suspended", user |-> NoUser]
    ELSE [status |-> 200, detail |-> "", user |-> user]

\* The part of the login route after authentication: tokens, session row,
\* response
issue_tokens(op, user) ==
    LET access_token_expires == timedelta_minutes(ACCESS_TOKEN_EXPIRE_MINUTES)
        refresh_token_expires == timedelta_days(REFRESH_TOKEN_EXPIRE_DAYS)
        access_token == create_access_token(str_uuid(user.id), access_token_expires, now)
        refresh_token == create_refresh_token(str_uuid(user.id), refresh_token_expires, now)
        expires_at == now + refresh_token_expires
        created == create_session(user.id, refresh_token, expires_at)
    IN  IF ~created.ok
        THEN /\ resp' = Response(op, 500, "Internal Server Error")
             /\ UNCHANGED <<sessions, issued>>
        ELSE /\ sessions' = created.sessions
             /\ issued' = issued \cup
                   {[access_token |-> access_token, refresh_token |-> refresh_token]}
             /\ resp' = [Response(op, 200, "") EXCEPT
                            !.user_id = user.id,
                            !.access_token = access_token,
                            !.refresh_token = refresh_token]

\* routes.auth_route.login: POST /auth/login?email=&password=. The history
\* failed_attempts is not the route's: the specifications say what becomes
\* of it (login_uncounted, login_counted).
login(email, password) ==
    /\ Len(sessions) < MaxSessions
    /\ LET auth == authenticate_user(email, password) IN
       IF auth.status # 200
       THEN /\ resp' = Response("login", auth.status, auth.detail)
            /\ UNCHANGED <<sessions, issued>>
       ELSE issue_tokens("login", auth.user)
    /\ activity_logs' =
          LET user == user_by_email(email) IN
          IF resp'.status = 200
          THEN audit(audit(audit(activity_logs, user, "login_success"),
                           user, "session_create_success"),
                     user, "login_success")
          ELSE IF resp'.status = 500
          THEN audit(audit(activity_logs, user, "login_success"),
                     user, "session_create_error")
          ELSE IF resp'.status = 403
          THEN audit(activity_logs, user, "login_blocked")
          ELSE audit(activity_logs, NoUser, "login_failed")
    /\ UNCHANGED <<users, now, advances>>
    /\ UNCHANGED staff_vars
    /\ UNCHANGED invalidations
    /\ UNCHANGED owned_vars

\* AuthService.authenticate_user(db, identifier, password): the rows whose
\* username or email is the identifier; scalar_one_or_none raises on two
AuthService_authenticate_user(identifier, password) ==
    LET found == {u \in users : u.username = identifier \/ u.email = identifier} IN
    IF Cardinality(found) > 1
    THEN [status |-> 500, detail |-> "Internal Server Error", user |-> NoUser]
    ELSE IF found = {}
    THEN [status |-> 401, detail |-> "Invalid login credentials", user |-> NoUser]
    ELSE LET user == CHOOSE u \in found : TRUE IN
         IF ~verify_password(password, user.hashed_password)
         THEN [status |-> 401, detail |-> "Invalid login credentials", user |-> NoUser]
         ELSE [status |-> 200, detail |-> "", user |-> user]

\* A call of AuthService.authenticate_user(db, identifier, password)
authenticate_user_call(identifier, password) ==
    /\ LET auth == AuthService_authenticate_user(identifier, password) IN
       resp' = [Response("AuthService.authenticate_user", auth.status, auth.detail)
                   EXCEPT !.user_id = auth.user.id,
                          !.user_in = [NoUpdate EXCEPT !.username = identifier,
                                                       !.password = password]]
    /\ UNCHANGED <<users, sessions, activity_logs, now, advances, issued>>
    /\ UNCHANGED staff_vars
    /\ UNCHANGED invalidations
    /\ UNCHANGED owned_vars
    /\ UNCHANGED failed_attempts

\* AuthService.login(db, identifier, password, user_agent, ip_address)
AuthService_login(identifier, password) ==
    /\ Len(sessions) < MaxSessions
    /\ LET auth == AuthService_authenticate_user(identifier, password) IN
       IF auth.status # 200
       THEN /\ resp' = Response("AuthService.login", auth.status, auth.detail)
            /\ UNCHANGED <<sessions, issued>>
       ELSE IF login_blocked(auth.user.status)
       THEN /\ resp' = Response("AuthService.login", 403, "Your account is suspended")
            /\ UNCHANGED <<sessions, issued>>
       ELSE issue_tokens("AuthService.login", auth.user)
    /\ activity_logs' =
          IF resp'.status = 200
          THEN audit(activity_logs, user_by_id(resp'.user_id), "session_create_success")
          ELSE activity_logs
    /\ UNCHANGED <<users, now, advances>>
    /\ UNCHANGED staff_vars
    /\ UNCHANGED invalidations
    /\ UNCHANGED owned_vars
    /\ UNCHANGED failed_attempts

\* A login whose failures nobody counts
login_uncounted(email, password) ==
    /\ login(email, password)
    /\ UNCHANGED failed_attempts

\* A login observed by the history: a 401 counts as one more failed attempt
\* for its email
login_counted(email, password) ==
    /\ failed_attempts[email] < MaxAttempts
    /\ login(email, password)
    /\ failed_attempts' = IF resp'.status = 401
                          THEN [failed_attempts EXCEPT ![email] = @ + 1]
                          ELSE failed_attempts

(* --------------------------- current user ----------------------------- *)

\* account_active letting users through that still await their KYC
account_active_or_pending(status) ==
    status \in {"ACTIVE", "PENDING_KYC"}

\* The status check of get_current_user
account_active(status) ==
    status = "ACTIVE"

\* f"User account is {user_status.value}"
account_detail(status) ==
    CASE status = "INACTIVE" -> "User account is inactive"
      [] status = "SUSPENDED" -> "User account is suspended"
      [] status = "PENDING_KYC" -> "User account is pending_kyc"
      [] status = "KYC_REJECTED" -> "User account is kyc_rejected"
      [] OTHER -> "User account is active"

\* get_current_user that also asks for a valid session of the user
get_current_user_with_session(token) ==
    LET payload == jwt_decode(token, JWT_SECRET_KEY, now) IN
    IF ~payload.ok /\ payload.err = "ExpiredSignatureError"
    THEN [status |-> 401, detail |-> "Token has expired", user |-> NoUser]
    ELSE IF ~payload.ok
    THEN [status |-> 401, detail |-> "Could not validate credentials", user |-> NoUser]
    ELSE IF payload.sub = None \/ UUID(payload.sub) = 0
    THEN [status |-> 401, detail |-> "Could not validate credentials", user |-> NoUser]
    ELSE LET user == user_by_id(UUID(payload.sub)) IN
         IF user = NoUser
         THEN [status |-> 404, detail |-> "User not found", user |-> NoUser]
         ELSE IF ~account_active(user.status)
         THEN [status |-> 403, detail |-> account_detail(user.status), user |-> NoUser]
         ELSE IF ~\E i \in DOMAIN sessions :
                     sessions[i].user_id = user.id /\ sessions[i].is_valid
         THEN [status |-> 401, detail |-> "Could not validate credentials", user |-> NoUser]
         ELSE [status |-> 200, detail |-> "", user |-> user]

\* utils.current_user.get_current_user(token, db)
get_current_user(token) ==
    LET payload == jwt_decode(token, JWT_SECRET_KEY, now) IN
    IF ~payload.ok /\ payload.err = "ExpiredSignatureError"
    THEN [status |-> 401, detail |-> "Token has expired", user |-> NoUser]
    ELSE IF ~payload.ok
    THEN [status |-> 401, detail |-> "Could not validate credentials", user |-> NoUser]
    ELSE IF payload.sub = None \/ UUID(payload.sub) = 0
    THEN [status |-> 401, detail |-> "Could not validate credentials", user |-> NoUser]
    ELSE LET user == user_by_id(UUID(payload.sub)) IN
         IF user = NoUser
         THEN [status |-> 404, detail |-> "User not found", user |-> NoUser]
         ELSE IF ~account_active(user.status)
         THEN [status |-> 403, detail |-> account_detail(user.status), user |-> NoUser]
         ELSE [status |-> 200, detail |-> "", user |-> user]

(* ------------------------------ logout -------------------------------- *)

\* routes.auth_route.logout: POST /auth/logout with the bearer token and
\* the X-Refresh-Token header (NoToken: the header is missing). The response
\* record keeps the bearer token of the request, and once the caller is
\* authenticated the user and the refresh token.
logout(token, refresh_token) ==
    /\ LET cur == get_current_user(token)
           answer(status, detail) ==
               [Response("logout", status, detail)
                   EXCEPT !.user_id = cur.user.id, !.access_token = token,
                          !.refresh_token = refresh_token]
       IN  IF cur.status # 200
           THEN /\ resp' = [Response("logout", cur.status, cur.detail)
                               EXCEPT !.access_token = token]
                /\ UNCHANGED sessions
           ELSE IF refresh_token = NoToken
           THEN /\ resp' = answer(400, "Refresh token missing from headers")
                /\ UNCHANGED sessions
           ELSE LET inv == invalidate_session(refresh_token, cur.user.id) IN
                IF inv.status # 200
                THEN /\ resp' = answer(inv.status, inv.detail)
                     /\ UNCHANGED sessions
                ELSE /\ sessions' = inv.sessions
                     /\ resp' = answer(200, "Logged out successfully")
    /\ activity_logs' =
          LET user == user_by_id(resp'.user_id) IN
          IF resp'.user_id = 0 \/ refresh_token = NoToken
          THEN activity_logs
          ELSE IF resp'.status = 200
          THEN audit(audit(activity_logs, user, "session_invalidate_success"),
                     user, "logout_success")
          ELSE audit(activity_logs, user, "session_invalidate_failed")
    /\ UNCHANGED <<users, now, advances, issued>>
    /\ UNCHANGED staff_vars
    /\ UNCHANGED invalidations
    /\ UNCHANGED owned_vars
    /\ UNCHANGED failed_attempts

(* --------------------------- staff service ---------------------------- *)

\* BaseModel.id default uuid.uuid4 for a staff row: an id no row or call has
new_staff_id ==
    LET used == {s.id : s \in staffs} \cup {c.id : c \in pending}
    IN  CHOOSE i \in 1..(Cardinality(used) + 1) :
            i \notin used /\ \A j \in 1..(i - 1) : j \in used

\* ensure_single_superuser without its second check, on the department
ensure_single_superuser_role_only(role, department) ==
    IF /\ role = "SUPERUSER"
       /\ \E s \in staffs : s.role = model_value("SUPERUSER")
    THEN [status |-> 400, detail |-> "A superuser already exists."]
    ELSE [status |-> 200, detail |-> ""]

\* RestrictionService.ensure_single_superuser(db, role, department)
ensure_single_superuser(role, department) ==
    IF /\ role = "SUPERUSER"
       /\ \E s \in staffs : s.role = model_value("SUPERUSER")
    THEN [status |-> 400, detail |-> "A superuser already exists."]
    ELSE IF /\ department = "SUPERUSER"
            /\ \E s \in staffs : s.department = model_value("SUPERUSER")
    THEN [status |-> 400, detail |-> "A superuser department already exists."]
    ELSE [status |-> 200, detail |-> ""]

\* staff_insert_error without the index uq_staff_superuser_department
staff_insert_error_without_index(row) ==
    IF \/ row.role \notin {model_value(r) : r \in StaffRole}
       \/ row.department \notin {model_value(d) : d \in Department}
    THEN "DataError"
    ELSE IF ~\E u \in users : u.id = row.user_id
    THEN "IntegrityError"
    ELSE ""

\* staff_insert_error of a table that takes every role and department text
\* and any number of superuser departments
staff_insert_error_unconstrained(row) ==
    IF ~\E u \in users : u.id = row.user_id
    THEN "IntegrityError"
    ELSE ""

\* What the staffs table answers to the INSERT or UPDATE that leaves this
\* row: the enum columns take the labels of models.staff_model only, the
\* partial unique index admits one row with department superuser, user_id
\* is a foreign key
staff_insert_error(row) ==
    IF \/ row.role \notin {model_value(r) : r \in StaffRole}
       \/ row.department \notin {model_value(d) : d \in Department}
    THEN "DataError"
    ELSE IF /\ row.department = model_value("SUPERUSER")
            /\ \E s \in staffs : s.id # row.id /\ s.department = model_value("SUPERUSER")
    THEN "IntegrityError"
    ELSE IF ~\E u \in users : u.id = row.user_id
    THEN "IntegrityError"
    ELSE ""

\* actor.user, or None when there is no actor
actor_user(actor) ==
    IF actor = NoStaff THEN NoUser ELSE user_by_id(actor.user_id)

\* staff_service.create_staff, up to the end of its ensure_single_superuser
\* check; staff_data has permissions = []. The call that passes waits in
\* pending with the Staff object it is about to add.
create_staff_check(staff_data, actor) ==
    /\ Cardinality(staffs) + Cardinality(pending) < MaxStaff
    /\ LET check == ensure_single_superuser(staff_data.role, staff_data.department)
           answer(status, detail) ==
               [Verdict("ensure_single_superuser", status, detail)
                   EXCEPT !.actor = actor, !.role = staff_data.role,
                          !.department = staff_data.department]
       IN  IF check.status # 200
           THEN /\ verdict' = answer(check.status, check.detail)
                /\ UNCHANGED pending
           ELSE /\ pending' = pending \cup
                      { [id |-> new_staff_id, user_id |-> staff_data.user_id,
                         role |-> schema_role_value(staff_data.role),
                         department |-> schema_department_value(staff_data.department),
                         actor |-> actor, staff_data |-> staff_data] }
                /\ verdict' = answer(200, "")
    /\ UNCHANGED <<users, sessions, activity_logs, now, advances, issued, resp, staffs>>
    /\ UNCHANGED failed_attempts
    /\ UNCHANGED invalidations
    /\ UNCHANGED owned_vars

\* staff_service.create_staff, from db.add / db.commit to its end
create_staff_commit(call) ==
    /\ call \in pending
    /\ pending' = pending \ {call}
    /\ LET new_staff == [id |-> call.id, user_id |-> call.user_id,
                         role |-> call.role, department |-> call.department]
           actor == call.actor
           answer(status, detail) ==
               [Verdict("create_staff", status, detail)
                   EXCEPT !.actor = actor, !.target = new_staff,
                          !.role = call.staff_data.role,
                          !.department = call.staff_data.department]
       IN  IF staff_insert_error(new_staff) # ""
           THEN /\ UNCHANGED staffs
                /\ activity_logs' = log_activity(activity_logs, actor_user(actor),
                                        "create_staff_error", actor_user(actor))
                /\ verdict' = IF log_activity_denied(actor_user(actor), actor_user(actor))
                              THEN answer(400, "Unsupported action")
                              ELSE answer(500, "Internal Server Error")
           ELSE /\ staffs' = staffs \cup {new_staff}
                /\ activity_logs' = log_activity(activity_logs,
                                        user_by_id(new_staff.user_id),
                                        "create_staff_success", actor_user(actor))
                /\ verdict' = IF log_activity_denied(user_by_id(new_staff.user_id),
                                                     actor_user(actor))
                              THEN answer(400, "Unsupported action")
                              ELSE answer(201, "")
    /\ UNCHANGED <<users, sessions, now, advances, issued, resp>>
    /\ UNCHANGED failed_attempts
    /\ UNCHANGED invalidations
    /\ UNCHANGED owned_vars

\* The Staff row get_staff selects by id, or None
staff_by_id(staff_id) ==
    IF \E s \in staffs : s.id = staff_id
    THEN CHOOSE s \in staffs : s.id = staff_id
    ELSE NoStaff

\* staff_service.get_staff(db, staff_id, actor): the status and detail it
\* ends with, and the row it returns
get_staff(staff_id, actor) ==
    LET staff == IF \E s \in staffs : s.id = staff_id
                 THEN CHOOSE s \in staffs : s.id = staff_id
                 ELSE NoStaff
    IN  IF staff = NoStaff
        THEN IF log_activity_denied(actor_user(actor), actor_user(actor))
             THEN [status |-> 400, detail |-> "Unsupported action", staff |-> NoStaff]
             ELSE [status |-> 404, detail |-> "Staff not found", staff |-> NoStaff]
        ELSE IF actor # NoStaff /\ enforce(actor, staff, "view").status # 200
        THEN [status |-> 403, detail |-> enforce(actor, staff, "view").detail,
              staff |-> NoStaff]
        ELSE IF log_activity_denied(user_by_id(staff.user_id), actor_user(actor))
        THEN [status |-> 400, detail |-> "Unsupported action", staff |-> NoStaff]
        ELSE [status |-> 200, detail |-> "", staff |-> staff]

\* update_staff that writes the payload to the row it finds, without
\* get_staff's audit step, the restriction engine or the SUPERUSER check
update_staff_unchecked(staff_id, staff_data, actor) ==
    /\ actor \in staffs
    /\ \E staff \in staffs :
          /\ staff.id = staff_id
          /\ staffs' = (staffs \ {staff}) \cup
                {[staff EXCEPT
                     !.department = IF staff_data.department = "NONE" THEN @
                                    ELSE model_value(staff_data.department),
                     !.role = IF staff_data.role = "NONE" THEN @
                              ELSE model_value(staff_data.role)]}
          /\ verdict' = [Verdict("update_staff", 200, "")
                           EXCEPT !.actor = actor, !.target = staff,
                                  !.role = staff_data.role,
                                  !.department = staff_data.department]
    /\ UNCHANGED <<users, sessions, now, advances, issued, resp, pending,
                   activity_logs>>
    /\ UNCHANGED failed_attempts
    /\ UNCHANGED invalidations
    /\ UNCHANGED owned_vars

\* staff_service.update_staff(db, staff_id, staff_data, actor); a field of
\* staff_data that is None is "NONE"
update_staff(staff_id, staff_data, actor) ==
    /\ actor \in staffs
    /\ LET got == get_staff(staff_id, actor)
           staff == got.staff
           edit == enforce(actor, staff, "edit")
           updated == [staff EXCEPT
                          !.department = IF staff_data.department = "NONE" THEN @
                                         ELSE schema_department_value(staff_data.department),
                          !.role = IF staff_data.role = "NONE" THEN @
                                   ELSE schema_role_value(staff_data.role)]
           answer(status, detail) ==
               [Verdict("update_staff", status, detail)
                   EXCEPT !.actor = actor, !.target = staff_by_id(staff_id),
                          !.role = staff_data.role,
                          !.department = staff_data.department]
           denied == log_activity_denied(actor_user(actor), actor_user(actor))
       IN  IF got.status # 200
           THEN /\ verdict' = answer(got.status, got.detail)
                /\ UNCHANGED <<staffs, activity_logs>>
           ELSE IF edit.status # 200
           THEN /\ verdict' = answer(edit.status, edit.detail)
                /\ UNCHANGED <<staffs, activity_logs>>
           ELSE IF \/ staff_data.role = "SUPERUSER"
                   \/ staff_data.department = "SUPERUSER"
           THEN /\ verdict' = IF denied THEN answer(400, "Unsupported action")
                              ELSE answer(403, "Cannot assign SUPERUSER role/department")
                /\ activity_logs' = log_activity(activity_logs, actor_user(actor),
                                        "update_staff_denied", actor_user(actor))
                /\ UNCHANGED staffs
           ELSE IF staff_insert_error(updated) # ""
           THEN /\ verdict' = IF denied THEN answer(400, "Unsupported action")
                              ELSE answer(500, "Internal Server Error")
                /\ activity_logs' = log_activity(activity_logs, actor_user(actor),
                                        "update_staff_error", actor_user(actor))
                /\ UNCHANGED staffs
           ELSE /\ staffs' = (staffs \ {staff}) \cup {updated}
                /\ verdict' = IF log_activity_denied(user_by_id(staff.user_id),
                                                     actor_user(actor))
                              THEN answer(400, "Unsupported action")
                              ELSE answer(200, "")
                /\ activity_logs' = log_activity(activity_logs,
                                        user_by_id(staff.user_id),
                                        "update_staff_success", actor_user(actor))
    /\ UNCHANGED <<users, sessions, now, advances, issued, resp, pending>>
    /\ UNCHANGED failed_attempts
    /\ UNCHANGED invalidations
    /\ UNCHANGED owned_vars

\* A call of staff_service.get_staff(db, staff_id, actor)
get_staff_call(staff_id, actor) ==
    /\ LET got == get_staff(staff_id, actor)
           staff == staff_by_id(staff_id)
       IN  /\ verdict' = [Verdict("get_staff", got.status, got.detail)
                            EXCEPT !.actor = actor, !.target = staff, !.action = "view"]
           /\ activity_logs' =
                 IF staff = NoStaff
                 THEN log_activity(activity_logs, actor_user(actor),
                                   "get_staff_failed", actor_user(actor))
                 ELSE IF actor # NoStaff /\ enforce(actor, staff, "view").status # 200
                 THEN activity_logs
                 ELSE log_activity(activity_logs, user_by_id(staff.user_id),
                                   "get_staff_success", actor_user(actor))
    /\ UNCHANGED <<users, sessions, now, advances, issued, resp, staffs, pending>>
    /\ UNCHANGED failed_attempts
    /\ UNCHANGED invalidations
    /\ UNCHANGED owned_vars

\* delete_staff that removes the row it finds without asking get_staff's
\* audit step or the restriction engine
delete_staff_unchecked(staff_id, actor) ==
    /\ actor \in staffs
    /\ \E staff \in staffs :
          /\ staff.id = staff_id
          /\ staffs' = staffs \ {staff}
          /\ verdict' = [Verdict("delete_staff", 200, "Staff deleted successfully")
                           EXCEPT !.actor = actor, !.target = staff,
                                  !.action = "delete"]
    /\ UNCHANGED <<users, sessions, now, advances, issued, resp, pending,
                   activity_logs>>
    /\ UNCHANGED failed_attempts
    /\ UNCHANGED invalidations
    /\ UNCHANGED owned_vars

\* staff_service.delete_staff(db, staff_id, actor)
delete_staff(staff_id, actor) ==
    /\ actor \in staffs
    /\ LET got == get_staff(staff_id, actor)
           staff == got.staff
           del == enforce(actor, staff, "delete")
           answer(status, detail) ==
               [Verdict("delete_staff", status, detail)
                   EXCEPT !.actor = actor, !.target = staff_by_id(staff_id),
                          !.action = "delete"]
       IN  IF got.status # 200
           THEN /\ verdict' = answer(got.status, got.detail)
                /\ UNCHANGED <<staffs, activity_logs>>
           ELSE IF del.status # 200
           THEN /\ verdict' = answer(del.status, del.detail)
                /\ UNCHANGED <<staffs, activity_logs>>
           ELSE /\ staffs' = staffs \ {staff}
                /\ verdict' = IF log_activity_denied(user_by_id(staff.user_id),
                                                     actor_user(actor))
                              THEN answer(400, "Unsupported action")
                              ELSE answer(200, "Staff deleted successfully")
                /\ activity_logs' = log_activity(activity_logs,
                                        user_by_id(staff.user_id),
                                        "delete_staff_success", actor_user(actor))
    /\ UNCHANGED <<users, sessions, now, advances, issued, resp, pending>>
    /\ UNCHANGED failed_attempts
    /\ UNCHANGED invalidations
    /\ UNCHANGED owned_vars

\* A direct call of RestrictionService.enforce(actor, target, action)
RestrictionService_enforce(actor, target, action) ==
    /\ verdict' = [Verdict("enforce", enforce(actor, target, action).status,
                           enforce(actor, target, action).detail)
                      EXCEPT !.actor = actor, !.target = target, !.action = action]
    /\ UNCHANGED <<users, sessions, activity_logs, now, advances, issued, resp,
                   staffs, pending>>
    /\ UNCHANGED failed_attempts
    /\ UNCHANGED invalidations
    /\ UNCHANGED owned_vars

(* ------------------------- request inputs ----------------------------- *)

\* Bearer tokens nobody was issued: signed with another key, signed for a
\* subject that is no UUID, expired, or naming a user that does not exist
ForgedTokens ==
    { [sub |-> str_uuid(1), exp |-> timegm(now) + 1, key |-> "WRONG_SECRET"],
      [sub |-> str_uuid(1), exp |-> timegm(now) - 1, key |-> "WRONG_SECRET"],
      [sub |-> NotAUuid, exp |-> timegm(now) + 1, key |-> JWT_SECRET_KEY],
      [sub |-> NotAUuid, exp |-> timegm(now) - 1, key |-> JWT_SECRET_KEY],
      [sub |-> str_uuid(Cardinality(Accounts) + 1), exp |-> timegm(now) + 1,
       key |-> JWT_SECRET_KEY] }

\* Bearer tokens a request may carry
BearerTokens ==
    {p.access_token : p \in issued} \cup ForgedTokens

\* X-Refresh-Token header values a request may carry
RefreshTokens ==
    {p.refresh_token : p \in issued} \cup {GarbageToken}

(* ------------------------------ clock --------------------------------- *)

\* The amounts the clock is advanced by: one tick, and the access-token
\* lifetime.
Jumps ==
    {1, timedelta_minutes(ACCESS_TOKEN_EXPIRE_MINUTES)}

\* Time passes; the last response has been delivered.
Advance(d) ==
    /\ advances < MaxAdvance
    /\ now' = now + d
    /\ advances' = advances + 1
    /\ resp' = Response("none", 0, "")
    /\ UNCHANGED <<users, sessions, activity_logs, issued>>
    /\ UNCHANGED staff_vars
    /\ UNCHANGED invalidations
    /\ UNCHANGED owned_vars
    /\ UNCHANGED failed_attempts

\* update_user requests the model explores: every status, for the user
\* that signed up first (the others keep the status they were created with)
StatusChanges ==
    {1} \X UserStatus

Next ==
    \/ \E a \in Accounts : create_user(a)
    \/ \E c \in StatusChanges : update_user(c[1], c[2])
    \/ \E e \in Emails, p \in Passwords : login_uncounted(e, p)
    \/ \E e \in Emails \cup Usernames, p \in Passwords : AuthService_login(e, p)
    \/ \E t \in BearerTokens, r \in RefreshTokens \cup {NoToken} : logout(t, r)
    \/ \E r \in RefreshTokens, id \in 1..Cardinality(Accounts) : validate_refresh_token(r, id)
    \/ \E d \in Jumps : Advance(d)

Spec == Init /\ [][Next]_vars

(* ----------------------- staff specifications ------------------------- *)

\* The account whose user the staff rows belong to
StaffAccounts ==
    {a \in Accounts : a.username = "auth_tester"}

\* create_staff requests the model explores (user_id: the first user)
StaffCreates ==
    [user_id : {1}, role : {"SUPERUSER", "ADMIN", "GENERAL"},
     department : {"SUPERUSER", "GENERAL"}]

\* update_staff payloads the model explores
StaffUpdates ==
    [role : {"NONE", "SUPERUSER", "ADMIN"}, department : {"NONE", "SUPERUSER", "GENERAL"}]

StaffNext ==
    \/ \E a \in StaffAccounts : create_user(a)
    \/ \E d \in StaffCreates, actor \in staffs \cup {NoStaff} : create_staff_check(d, actor)
    \/ \E call \in pending : create_staff_commit(call)
    \/ \E id \in 1..MaxStaff, d \in StaffUpdates, actor \in staffs : update_staff(id, d, actor)

StaffSpec == Init /\ [][StaffNext]_vars

\* Staff objects RestrictionService.enforce is called with
StaffRecords ==
    [id : 1..MaxStaff, user_id : {1}, role : {model_value(r) : r \in StaffRole},
     department : {model_value("GENERAL")}]

\* The actions the callers of enforce name: the supported ones, and the
\* "view_logs" of log_activity
Actions ==
    SUPPORTED_ACTIONS \cup {"view_logs"}

RestrictionNext ==
    \E actor \in StaffRecords, target \in StaffRecords, action \in Actions :
        RestrictionService_enforce(actor, target, action)

RestrictionSpec == Init /\ [][RestrictionNext]_vars

(* ----------------------- mutation specification ----------------------- *)

\* The staff requests, with get_staff and delete_staff, and a direct
\* create_session of one token for each user
MutationNext ==
    \/ StaffNext
    \/ \E id \in 1..MaxStaff, actor \in staffs \cup {NoStaff} : get_staff_call(id, actor)
    \/ \E id \in 1..MaxStaff, actor \in staffs : delete_staff(id, actor)
    \/ \E u \in users :
          SessionService_create_session(u.id, GarbageToken,
              datetime(now + timedelta_days(REFRESH_TOKEN_EXPIRE_DAYS), TRUE, 0))

MutationSpec == Init /\ [][MutationNext]_vars

(* ------------------------ audit specification ------------------------- *)

\* A direct call of log_activity(db, target_user, activity_type,
\* current_user=current_user) by a caller that names its current_user.
\* verdict keeps the outcome (200: the call returned) and the staff
\* profiles of the two users.
log_activity_call(target_user, activity_type, current_user) ==
    /\ Len(activity_logs) < MaxLogs
    /\ activity_logs' = log_activity(activity_logs, target_user, activity_type,
                                     current_user)
    /\ LET check == enforce(staff_profile(current_user), staff_profile(target_user),
                            "view_logs")
           answer(status, detail) ==
               [Verdict("log_activity", status, detail)
                   EXCEPT !.actor = staff_profile(current_user),
                          !.target = staff_profile(target_user),
                          !.action = "view_logs"]
       IN  verdict' = IF log_activity_denied(target_user, current_user)
                      THEN answer(check.status, check.detail)
                      ELSE answer(200, "")
    /\ UNCHANGED <<users, sessions, now, advances, issued, resp, staffs, pending>>
    /\ UNCHANGED failed_attempts
    /\ UNCHANGED invalidations
    /\ UNCHANGED owned_vars

\* create_staff requests of the audit specification: no actor, and the one
\* department the staffs table can store
AuditStaffCreates ==
    [user_id : {1}, role : {"SUPERUSER", "ADMIN"}, department : {"SUPERUSER"}]

\* Activity types the direct calls of log_activity name
AuditActivityTypes ==
    {"get_staff_success", "update_staff_success"}

AuditNext ==
    \/ \E a \in Accounts : create_user(a)
    \/ \E d \in AuditStaffCreates : create_staff_check(d, NoStaff)
    \/ \E call \in pending : create_staff_commit(call)
    \/ \E target_user \in users \cup {NoUser}, current_user \in users \cup {NoUser},
          t \in AuditActivityTypes :
          log_activity_call(target_user, t, current_user)

AuditSpec == Init /\ [][AuditNext]_vars

(* ---------------------- session-expiry specification ------------------ *)

\* The amounts the clock is advanced by where refresh tokens expire: one
\* tick, and the refresh-token lifetime
SessionJumps ==
    {1, timedelta_days(REFRESH_TOKEN_EXPIRE_DAYS)}

SessionNext ==
    \/ \E a \in Accounts : create_user(a)
    \/ \E e \in Emails, p \in Passwords : login_uncounted(e, p)
    \/ \E r \in RefreshTokens, id \in 1..Cardinality(Accounts) : validate_refresh_token(r, id)
    \/ \E d \in SessionJumps : Advance(d)

SessionSpec == Init /\ [][SessionNext]_vars

(* ---------------------- validation specification ---------------------- *)

\* Logins, logouts and validations of two users, over the refresh-token
\* lifetime; update_user activates the account that logs out
ValidateNext ==
    \/ SessionNext
    \/ update_user(1, "ACTIVE")
    \/ \E t \in BearerTokens, r \in RefreshTokens : logout(t, r)

ValidateSpec == Init /\ [][ValidateNext]_vars

(* ---------------------- session-create specification ------------------ *)

\* The expiries of the session_in objects the model explores: now or one
\* refresh lifetime ahead on the wall clock; naive, in UTC, or one hour
\* ahead of UTC
Expiries ==
    { datetime(now + w, z[1], z[2]) :
        w \in {0, timedelta_days(REFRESH_TOKEN_EXPIRE_DAYS)},
        z \in {<<FALSE, 0>>, <<TRUE, 0>>, <<TRUE, timedelta_hours(1)>>} }

\* The refresh tokens of the session_in objects
SessionTokens ==
    {GarbageToken} \cup
    {create_refresh_token(str_uuid(id), timedelta_days(REFRESH_TOKEN_EXPIRE_DAYS), now) :
        id \in 1..Cardinality(Accounts)}

CreateNext ==
    \/ \E a \in Accounts : create_user(a)
    \/ \E u \in users, r \in SessionTokens, e \in Expiries :
          SessionService_create_session(u.id, r, e)
    \/ \E r \in SessionTokens, id \in 1..Cardinality(Accounts) :
          validate_refresh_token(r, id)

CreateSpec == Init /\ [][CreateNext]_vars

(* -------------------------- user specification ------------------------ *)

\* create_user requests of the user specification: the two accounts, and
\* two more that take the username or the email of the first
UserCreates ==
    Accounts \cup
    { [username |-> "auth_tester", email |-> "b@example.com",
       phone_number |-> "000000000", password |-> "password123"],
      [username |-> "second", email |-> "auth@test.com",
       phone_number |-> "000000000", password |-> "password123"] }

\* update_user payloads the model explores
UserUpdates ==
    [username : {Unset, "updated_name", "auth_tester"},
     email : {Unset, "auth@test.com", "updated@test.com"},
     phone_number : {Unset, "000000000"},
     password : {Unset, "newpassword123"}]

\* Ids get_user_by_id is asked for: the users', and one more
UserIds ==
    1..(Cardinality(Accounts) + 1)

UserNext ==
    \/ \E a \in UserCreates : create_user(a)
    \/ \E id \in UserIds, current_user \in users :
          UserService_get_user_by_id(id, current_user)
    \/ \E user \in users, user_in \in UserUpdates, current_user \in users :
          UserService_update_user(user, user_in, current_user)

UserSpec == Init /\ [][UserNext]_vars

(* ----------------------- deletion specification ----------------------- *)

\* Users sign up, log in, submit KYC, get API keys and audit rows, become
\* staff, and are deleted
DeleteNext ==
    \/ \E a \in Accounts : create_user(a)
    \/ login_uncounted("auth@test.com", "strongpass123")
    \/ \E user \in users : KYCService_submit_kyc(user)
    \/ \E id \in 1..Cardinality(Accounts) : create_api_key(id)
    \/ \E current_user \in users :
          log_activity_call(NoUser, "get_staff_failed", current_user)
    \/ create_staff_check([user_id |-> 1, role |-> "ADMIN",
                           department |-> "SUPERUSER"], NoStaff)
    \/ \E call \in pending : create_staff_commit(call)
    \/ \E user \in users, current_user \in users :
          UserService_delete_user(user, current_user)

DeleteSpec == Init /\ [][DeleteNext]_vars

(* ------------------------- login specification ------------------------ *)

\* Sign-ups of the login specification: the two accounts, and one whose
\* username is the first account's email
AuthCreates ==
    Accounts \cup
    { [username |-> "auth@test.com", email |-> "third@test.com",
       phone_number |-> "000000000", password |-> "password123"] }

\* Identifiers and passwords AuthService.authenticate_user is called with
AuthIdentifiers ==
    {"auth@test.com", "auth_tester", "second@test.com", "nobody"}

AuthPasswords ==
    {"strongpass123", "password123", "wrong"}

AuthNext ==
    \/ \E a \in AuthCreates : create_user(a)
    \/ \E identifier \in AuthIdentifiers, password \in AuthPasswords :
          authenticate_user_call(identifier, password)

AuthSpec == Init /\ [][AuthNext]_vars

(* ------------------------ lockout specification ----------------------- *)

\* tests/test_auth.py, test_brute_force_lockout: "if len(attempts) > 5"
FAILED_ATTEMPTS_LIMIT == 5

LockoutNext ==
    \/ \E a \in StaffAccounts : create_user(a)
    \/ \E e \in Emails, p \in Passwords : login_counted(e, p)

LockoutSpec == Init /\ [][LockoutNext]_vars

(* ---------------------- concurrency specification --------------------- *)

\* Requests run one after another, except invalidate_session, whose calls
\* interleave between their SELECT and their UPDATE
ConcurrentNext ==
    \/ \E a \in Accounts : create_user(a)
    \/ \E e \in Emails, p \in Passwords : login_uncounted(e, p)
    \/ \E id \in 1..MaxCalls, r \in RefreshTokens, u \in 1..Cardinality(Accounts) :
          invalidate_session_read(id, r, u)
    \/ \E call \in invalidations : invalidate_session_commit(call)

ConcurrentSpec == Init /\ [][ConcurrentNext]_vars

(* ============================= properties ============================= *)

\* The rows of the table (in state sessions) with this token and this owner
rows_of(table, refresh_token, user_id) ==
    { i \in DOMAIN table :
        table[i].refresh_token = refresh_token /\ table[i].user_id = user_id }

\* The two login entry points: the /auth/login route and AuthService.login
LoginOps == {"login", "AuthService.login"}

\* The credentials name a user and carry that user's password
good_credentials(email, password) ==
    \E u \in users : u.email = email /\ u.hashed_password = hash_password(password)

\* The same for AuthService.login, which takes a username or an email
good_identifier(identifier, password) ==
    \E u \in users :
        /\ u.username = identifier \/ u.email = identifier
        /\ u.hashed_password = hash_password(password)

\* The refresh-token lifetime, in ticks: 7 days
RefreshLifetime ==
    REFRESH_TOKEN_EXPIRE_DAYS * 24 * 60 * 60 * TicksPerSecond

\* A session row accepts its token at the current time
usable(row) ==
    row.is_valid /\ ~(row.expires_at < now)

(* C1: once invalidate_session(token, user) has succeeded (a logout answered
   200), the session's row has is_valid = FALSE; a row with is_valid = FALSE
   keeps that value and its token and owner through every later step; and a
   validate_refresh_token(token, user) whose row has is_valid = FALSE
   answers 401 "Invalid or expired refresh token". *)
C1_InvalidatedTokenIsRejected ==
    [][ /\ (resp'.op = "logout" /\ resp'.status = 200)
           => /\ rows_of(sessions', resp'.refresh_token, resp'.user_id) # {}
              /\ \A i \in rows_of(sessions', resp'.refresh_token, resp'.user_id) :
                    ~sessions'[i].is_valid
        /\ \A i \in DOMAIN sessions :
              ~sessions[i].is_valid
              => i \in DOMAIN sessions' /\ sessions'[i] = sessions[i]
        /\ ( /\ resp'.op = "validate_refresh_token"
             /\ \E i \in rows_of(sessions, resp'.refresh_token, resp'.user_id) :
                   ~sessions[i].is_valid )
           => /\ resp'.status = 401
              /\ resp'.detail = "Invalid or expired refresh token"
      ]_vars

\* A validation that was refused for a session that a logout had invalidated,
\* while another session is still valid
C1_Witness ==
    /\ resp.op = "validate_refresh_token"
    /\ resp.status = 401
    /\ \E i \in rows_of(sessions, resp.refresh_token, resp.user_id) : ~sessions[i].is_valid
    /\ \E j \in DOMAIN sessions : sessions[j].is_valid

(* C2: a successful login appends a valid row and leaves every other row
   as it was (so two logins of one user leave two valid rows); a logout
   changes only rows with the token and owner it names; and
   validate_refresh_token answers 200 exactly when the named row is valid and
   not expired - so after login A, login B, logout A, validating B succeeds
   and validating A fails. *)
C2_SessionsAreIndependent ==
    [][ /\ (resp'.op = "login" /\ resp'.status = 200)
           => /\ Len(sessions') = Len(sessions) + 1
              /\ sessions'[Len(sessions')].is_valid
              /\ sessions'[Len(sessions')].refresh_token = resp'.refresh_token
              /\ \A i \in DOMAIN sessions : sessions'[i] = sessions[i]
        /\ resp'.op = "logout"
           => /\ DOMAIN sessions' = DOMAIN sessions
              /\ \A i \in DOMAIN sessions :
                    i \notin rows_of(sessions, resp'.refresh_token, resp'.user_id)
                    => sessions'[i] = sessions[i]
        /\ resp'.op = "validate_refresh_token"
           => /\ sessions' = sessions
              /\ resp'.status = 200
                   <=> \E i \in rows_of(sessions, resp'.refresh_token, resp'.user_id) :
                          usable(sessions[i])
      ]_vars

\* Two sessions of one user, the first logged out, and a validation of the
\* second that succeeded
C2_Witness ==
    /\ Len(sessions) = 2
    /\ sessions[1].user_id = sessions[2].user_id
    /\ ~sessions[1].is_valid
    /\ sessions[2].is_valid
    /\ resp.op = "validate_refresh_token"
    /\ resp.status = 200
    /\ resp.refresh_token = sessions[2].refresh_token
    /\ resp.user_id = sessions[2].user_id

(* C3: a logout by an authenticated user that names a refresh token for
   which that user has no valid session (the session was invalidated before,
   or never existed) answers 404 "Session not found or already invalidated"
   and changes no session row. *)
C3_LogoutWithoutSessionIs404 ==
    [][ ( /\ resp'.op = "logout"
          /\ resp'.user_id # 0
          /\ resp'.refresh_token # NoToken
          /\ \A i \in rows_of(sessions, resp'.refresh_token, resp'.user_id) :
                ~sessions[i].is_valid )
        => /\ resp'.status = 404
           /\ resp'.detail = "Session not found or already invalidated"
           /\ sessions' = sessions
      ]_vars

\* The second logout with the same refresh token: the row is there, it is
\* already invalid, and the answer is 404
C3_Witness ==
    /\ resp.op = "logout"
    /\ resp.status = 404
    /\ \E i \in rows_of(sessions, resp.refresh_token, resp.user_id) : ~sessions[i].is_valid

(* C4 (the claim as stated): every login with a user's email and password,
   the user not SUSPENDED, answers 200 with an access token and a refresh
   token that are non-empty and differ, and the refresh token is none that an
   earlier login returned - also when the same user logs in twice within one
   clock second. *)
C4_LoginSucceedsWithFreshTokens ==
    [][ resp'.op = "login"
        => \A e \in Emails, p \in Passwords :
             ( /\ login(e, p)
               /\ good_credentials(e, p)
               /\ user_by_email(e).status # "SUSPENDED" )
             => /\ resp'.status = 200
                /\ resp'.access_token # NoToken
                /\ resp'.refresh_token # NoToken
                /\ resp'.access_token # resp'.refresh_token
                /\ \A q \in issued : q.refresh_token # resp'.refresh_token
      ]_vars

(* C5: every successful login adds exactly one session row: its refresh
   token is the one in the response, its owner the user that logged in, its
   is_valid TRUE and its expires_at the login time plus 7 days; no other row
   changes. *)
C5_LoginAddsOneSession ==
    [][ (resp'.op = "login" /\ resp'.status = 200)
        => \A e \in Emails, p \in Passwords :
             login(e, p)
             => /\ resp'.user_id = user_by_email(e).id
                /\ sessions' = Append(sessions,
                      [user_id |-> user_by_email(e).id,
                       refresh_token |-> resp'.refresh_token,
                       is_valid |-> TRUE,
                       expires_at |-> now + RefreshLifetime])
      ]_vars

\* A login that succeeded, after the clock had moved off a whole second
C5_Witness ==
    /\ resp.op = "login"
    /\ resp.status = 200
    /\ now % TicksPerSecond # 0
    /\ sessions[Len(sessions)].refresh_token = resp.refresh_token

(* C6 (the claim as stated): for every user who can log in, PENDING_KYC
   users included, a logout that presents the access token and the refresh
   token of one login, while that session is valid and the access token has
   not expired, answers 200 "Logged out successfully" and leaves the session
   with is_valid = FALSE. *)
C6_LogoutAfterLoginSucceeds ==
    [][ resp'.op = "logout"
        => \A q \in issued :
             ( /\ logout(q.access_token, q.refresh_token)
               /\ q.access_token.exp >= timegm(now)
               /\ \E i \in DOMAIN sessions :
                     /\ sessions[i].refresh_token = q.refresh_token
                     /\ sessions[i].is_valid
                     /\ user_by_id(sessions[i].user_id).status # "SUSPENDED" )
             => /\ resp'.status = 200
                /\ resp'.detail = "Logged out successfully"
                /\ \A i \in DOMAIN sessions' :
                      sessions'[i].refresh_token = q.refresh_token
                      => ~sessions'[i].is_valid
      ]_vars

(* C7 (the claim as stated): when a user logs in again, the sessions that
   user's earlier logins created become invalid, and the new session is
   valid. *)
C7_SecondLoginInvalidatesFirst ==
    [][ (resp'.op = "login" /\ resp'.status = 200)
        => /\ sessions'[Len(sessions')].is_valid
           /\ \A i \in DOMAIN sessions :
                 sessions[i].user_id = resp'.user_id => ~sessions'[i].is_valid
      ]_vars

(* C8: a login with an unknown email, with a known email and a wrong
   password, or with both wrong answers 401, returns no token and adds no
   session; and the step it takes is the step every other such login would
   take from the same state (the same response), so the response does not
   tell whether the account exists. The same holds of AuthService.login. *)
C8_BadCredentialsAreIndistinguishable ==
    [][ /\ resp'.op = "login"
           => \A e \in Emails, p \in Passwords :
                (login(e, p) /\ ~good_credentials(e, p))
                => /\ resp'.status = 401
                   /\ resp'.access_token = NoToken
                   /\ resp'.refresh_token = NoToken
                   /\ sessions' = sessions
                   /\ issued' = issued
                   /\ \A e2 \in Emails, p2 \in Passwords :
                         ~good_credentials(e2, p2) => login(e2, p2)
        /\ resp'.op = "AuthService.login"
           => \A e \in Emails \cup Usernames, p \in Passwords :
                (AuthService_login(e, p) /\ ~good_identifier(e, p))
                => /\ resp'.status = 401
                   /\ resp'.access_token = NoToken
                   /\ resp'.refresh_token = NoToken
                   /\ sessions' = sessions
                   /\ issued' = issued
                   /\ \A e2 \in Emails \cup Usernames, p2 \in Passwords :
                         ~good_identifier(e2, p2) => AuthService_login(e2, p2)
      ]_vars

\* A refused login while a user exists and holds a session: the request
\* named that user with a wrong password, or an unknown email
C8_Witness ==
    /\ resp.op = "login"
    /\ resp.status = 401
    /\ users # {}
    /\ sessions # <<>>

(* C9: a login with the email and password of a user whose status is
   SUSPENDED answers 403, returns no token and adds no session; with the
   email and password of a user in any other status it is not refused by the
   status gate (it answers neither 403 nor 401). The same holds of
   AuthService.login. *)
C9_OnlySuspendedIsBlocked ==
    [][ /\ resp'.op = "login"
           => \A e \in Emails, p \in Passwords :
                (login(e, p) /\ good_credentials(e, p))
                => IF user_by_email(e).status = "SUSPENDED"
                   THEN /\ resp'.status = 403
                        /\ resp'.access_token = NoToken
                        /\ resp'.refresh_token = NoToken
                        /\ sessions' = sessions
                        /\ issued' = issued
                   ELSE resp'.status \notin {401, 403}
        /\ resp'.op = "AuthService.login"
           => \A e \in Emails \cup Usernames, p \in Passwords :
                (AuthService_login(e, p) /\ good_identifier(e, p))
                => IF \E u \in users : (u.username = e \/ u.email = e)
                                         /\ u.status = "SUSPENDED"
                   THEN /\ resp'.status = 403
                        /\ resp'.access_token = NoToken
                        /\ resp'.refresh_token = NoToken
                        /\ sessions' = sessions
                        /\ issued' = issued
                   ELSE resp'.status \notin {401, 403}
      ]_vars

\* A suspended user with a session from before the suspension was refused
C9_Witness ==
    /\ resp.op = "login"
    /\ resp.status = 403
    /\ \E u \in users :
          /\ u.status = "SUSPENDED"
          /\ \E i \in DOMAIN sessions : sessions[i].user_id = u.id

(* C10 (as amended): a bearer token signed with the service's key whose exp
   claim is T (whole seconds) is refused with 401 "Token has expired"
   whenever the clock, truncated to whole seconds, is later than T; an access
   token a login issued verifies whenever the truncated clock is at most T
   and yields the user the login was for; a token signed with another key
   is refused with 401 at every time. *)
C10_ExpiryInWholeSeconds ==
    /\ \A t \in BearerTokens :
          /\ (t.key = JWT_SECRET_KEY /\ timegm(now) > t.exp)
             => /\ get_current_user(t).status = 401
                /\ get_current_user(t).detail = "Token has expired"
          /\ t.key # JWT_SECRET_KEY => get_current_user(t).status = 401
    /\ \A q \in issued :
          timegm(now) <= q.access_token.exp
          => /\ get_current_user(q.access_token).status # 401
             /\ \E i \in DOMAIN sessions :
                   /\ sessions[i].refresh_token = q.refresh_token
                   /\ UUID(jwt_decode(q.access_token, JWT_SECRET_KEY, now).sub)
                         = sessions[i].user_id
             /\ get_current_user(q.access_token).status = 200
                => \E i \in DOMAIN sessions :
                      /\ sessions[i].refresh_token = q.refresh_token
                      /\ get_current_user(q.access_token).user.id = sessions[i].user_id

\* A logout refused because the access token a login issued had expired
C10_Witness ==
    /\ resp.op = "logout"
    /\ resp.status = 401
    /\ resp.detail = "Token has expired"
    /\ \E q \in issued : q.access_token.exp < timegm(now)

(* C10 (the claim as stated): an access token issued with expiry T is
   refused whenever it is verified at a time later than T. *)
C10_RefusedAtEveryTimeAfterExpiry ==
    \A q \in issued :
        now > q.access_token.exp * TicksPerSecond
        => get_current_user(q.access_token).status = 401

\* The bearer token carries the service's signature, has not expired (in
\* whole seconds) and names a UUID
token_verifies(token) ==
    /\ token.key = JWT_SECRET_KEY
    /\ token.exp >= timegm(now)
    /\ token.sub.kind = "uuid"

(* C11: a logout whose bearer token does not verify answers 401; whose token
   verifies and names no existing user answers 404; whose token verifies and
   names a user that is not ACTIVE answers 403; in each of these cases, and
   in every other failure, no row of users, sessions or activity_logs
   changes; a session row changes only when the token verifies and names an
   existing ACTIVE user. *)
C11_ProtectedEndpointGate ==
    [][ resp'.op = "logout"
        => LET t == resp'.access_token IN
                /\ ~token_verifies(t) => resp'.status = 401
                /\ ( /\ token_verifies(t)
                     /\ \A u \in users : u.id # t.sub.val )
                   => resp'.status = 404
                /\ ( /\ token_verifies(t)
                     /\ \E u \in users : u.id = t.sub.val /\ u.status # "ACTIVE" )
                   => resp'.status = 403
                /\ resp'.status # 200 => sessions' = sessions
                /\ sessions' # sessions
                   => /\ token_verifies(t)
                      /\ \E u \in users : u.id = t.sub.val /\ u.status = "ACTIVE"
                /\ users' = users
                /\ activity_logs' = activity_logs
      ]_vars

\* A logout with the tokens of a login was refused with 403: the user is
\* not ACTIVE, and the session the refresh token names is still valid
C11_Witness ==
    /\ resp.op = "logout"
    /\ resp.status = 403
    /\ \E q \in issued : \E i \in DOMAIN sessions :
          /\ sessions[i].refresh_token = q.refresh_token
          /\ sessions[i].is_valid
          /\ token_verifies(q.access_token)
          /\ user_by_id(sessions[i].user_id).status # "ACTIVE"

\* The last call was RestrictionService.enforce with one of the four
\* actions it supports
enforced_supported ==
    verdict.op = "enforce" /\ verdict.action \in {"view", "edit", "delete", "create"}

(* C12: enforce with a target of role superuser and one of the actions
   view, edit, delete, create: an actor whose id differs from the target's
   is denied with 403 for every action; an actor with the target's id is
   denied with 403 for "edit" and allowed for "view". *)
C12_SuperuserTarget ==
    (enforced_supported /\ verdict.target.role = "superuser")
    => /\ verdict.actor.id # verdict.target.id => verdict.status = 403
       /\ (verdict.actor.id = verdict.target.id /\ verdict.action = "edit")
          => verdict.status = 403
       /\ (verdict.actor.id = verdict.target.id /\ verdict.action = "view")
          => verdict.status = 200

\* A superuser asked to edit its own record and was denied
C12_Witness ==
    /\ enforced_supported
    /\ verdict.target.role = "superuser"
    /\ verdict.actor = verdict.target
    /\ verdict.action = "edit"
    /\ verdict.status = 403

(* C13: enforce with a target of role admin and one of the actions view,
   edit, delete, create allows exactly when the actor's role is superuser;
   every other actor (admin, the target itself included, support,
   compliance, manager, general) is denied with 403. *)
C13_AdminTarget ==
    (enforced_supported /\ verdict.target.role = "admin")
    => /\ verdict.status = 200 <=> verdict.actor.role = "superuser"
       /\ verdict.actor.role # "superuser" => verdict.status = 403

\* An admin asked to act on its own record and was denied
C13_Witness ==
    /\ enforced_supported
    /\ verdict.target.role = "admin"
    /\ verdict.actor = verdict.target
    /\ verdict.status = 403

(* C14: enforce with a target of role general, manager, support or
   compliance and one of the actions view, edit, delete, create allows
   exactly when the actor's role is admin or superuser; every other actor,
   the target itself included, is denied with 403. *)
C14_NormalStaffTarget ==
    ( /\ enforced_supported
      /\ verdict.target.role \in {"general", "manager", "support", "compliance"} )
    => /\ verdict.status = 200 <=> verdict.actor.role \in {"admin", "superuser"}
       /\ verdict.actor.role \notin {"admin", "superuser"} => verdict.status = 403

\* A manager asked to view its own record and was denied
C14_Witness ==
    /\ enforced_supported
    /\ verdict.target.role = "manager"
    /\ verdict.actor = verdict.target
    /\ verdict.action = "view"
    /\ verdict.status = 403

(* C15 (the claim as stated): for every actor role, target role and action
   in {view, edit, delete, create, view_logs}, enforce either allows or
   fails with 403. *)
C15_EnforceIsTotal ==
    ( /\ verdict.op = "enforce"
      /\ verdict.action \in {"view", "edit", "delete", "create", "view_logs"} )
    => verdict.status \in {200, 403}

\* A staff row with role superuser exists
superuser_role_exists ==
    \E s \in staffs : s.role = "superuser"

\* A staff row with department superuser exists
superuser_department_exists ==
    \E s \in staffs : s.department = "superuser"

(* C16: ensure_single_superuser(role, department), as create_staff calls
   it, denies (400) a request with role SUPERUSER when a staff row with role
   superuser exists, denies (400) a request with department SUPERUSER when a
   staff row with department superuser exists, and allows every other
   request - among them the first SUPERUSER request and every request that
   names neither. *)
C16_EnsureSingleSuperuser ==
    verdict.op = "ensure_single_superuser"
    => /\ (verdict.role = "SUPERUSER" /\ superuser_role_exists)
          => /\ verdict.status = 400
             /\ verdict.detail = "A superuser already exists."
       /\ (verdict.department = "SUPERUSER" /\ superuser_department_exists)
          => verdict.status = 400
       /\ ( /\ ~(verdict.role = "SUPERUSER" /\ superuser_role_exists)
            /\ ~(verdict.department = "SUPERUSER" /\ superuser_department_exists) )
          => verdict.status = 200

\* A request for a second staff with department SUPERUSER (and another
\* role) was denied
C16_Witness ==
    /\ verdict.op = "ensure_single_superuser"
    /\ verdict.status = 400
    /\ verdict.role # "SUPERUSER"
    /\ verdict.department = "SUPERUSER"
    /\ superuser_department_exists

(* C17: in every reachable state, create_staff calls interleaved between
   their check and their commit and update_staff calls included, at most one
   staff row has role superuser and at most one has department superuser. *)
C17_AtMostOneSuperuser ==
    /\ Cardinality({s \in staffs : s.role = "superuser"}) <= 1
    /\ Cardinality({s \in staffs : s.department = "superuser"}) <= 1

\* Two create_staff calls for a SUPERUSER passed the check together; one
\* committed, the other was refused by the table at its commit
C17_Witness ==
    /\ verdict.op = "create_staff"
    /\ verdict.status = 500
    /\ verdict.role = "SUPERUSER"
    /\ verdict.department = "SUPERUSER"
    /\ superuser_role_exists

\* The activity types of SessionService
SessionActivityTypes ==
    {"session_create_success", "session_create_error",
     "session_invalidate_success", "session_invalidate_failed",
     "session_validate_success", "session_validate_failed"}

\* The audit rows of SessionService that a step added
session_rows_added(before, after) ==
    {i \in DOMAIN after :
        i > Len(before) /\ after[i].activity_type \in SessionActivityTypes}

(* C18 (the claim as stated): a step in which create_session (a login that
   got as far as its session: 200 or 500), invalidate_session (a logout of
   an authenticated user with a refresh token: 200 or 404) or
   validate_refresh_token (200 or 401) was called with an actor adds exactly
   one audit row of SessionService. *)
C18_SessionCallsWriteOneAuditRow ==
    [][ ( \/ resp'.op = "login" /\ resp'.status \in {200, 500}
          \/ /\ resp'.op = "logout"
             /\ resp'.user_id # 0
             /\ resp'.refresh_token # NoToken
          \/ /\ resp'.op = "validate_refresh_token"
             /\ \E u \in users : u.id = resp'.user_id )
        => Cardinality(session_rows_added(activity_logs, activity_logs')) = 1
      ]_vars

(* C19 (as amended): for a valid session, validate_refresh_token fails with
   401 "Invalid or expired refresh token" exactly when the stored expiry is
   strictly before the current time, and succeeds when the expiry is at or
   after the current time - at the instant of expiry itself it still
   succeeds. *)
C19_ExpiredStrictlyAfterExpiry ==
    resp.op = "validate_refresh_token"
    => \A i \in rows_of(sessions, resp.refresh_token, resp.user_id) :
          sessions[i].is_valid
          => /\ sessions[i].expires_at < now
                => /\ resp.status = 401
                   /\ resp.detail = "Invalid or expired refresh token"
             /\ sessions[i].expires_at >= now => resp.status = 200

\* A validation at the very instant the session expires, which succeeded
C19_Witness ==
    /\ resp.op = "validate_refresh_token"
    /\ resp.status = 200
    /\ \E i \in rows_of(sessions, resp.refresh_token, resp.user_id) :
          sessions[i].is_valid /\ sessions[i].expires_at = now

(* C19 (the claim as stated): validate_refresh_token fails for every valid
   session whose stored expiry is at or before the current time, the
   instant of expiry included, and succeeds only when the expiry is strictly
   later than the current time. *)
C19_ExpiredAtOrAfterExpiry ==
    resp.op = "validate_refresh_token"
    => \A i \in rows_of(sessions, resp.refresh_token, resp.user_id) :
          sessions[i].is_valid
          => /\ sessions[i].expires_at <= now => resp.status = 401
             /\ resp.status = 200 => sessions[i].expires_at > now

(* C20 (the claim as stated): a logout that carries an access token a login
   issued, which verifies (signature, expiry), and no X-Refresh-Token header
   answers 400 "Refresh token missing from headers" and leaves every
   session as it was. *)
C20_LogoutWithoutRefreshHeaderIs400 ==
    [][ resp'.op = "logout"
        => \A q \in issued :
             ( /\ logout(q.access_token, NoToken)
               /\ token_verifies(q.access_token) )
             => /\ resp'.status = 400
                /\ resp'.detail = "Refresh token missing from headers"
                /\ sessions' = sessions
      ]_vars

\* The audit rows a step added that have the given type and user
audit_rows_added(before, after, activity_type, user_id) ==
    {i \in DOMAIN after :
        /\ i > Len(before)
        /\ after[i].activity_type = activity_type
        /\ after[i].user_id = user_id}

(* C21 (the claim as stated): a login answered 200 adds an audit row of type
   "login_success" for the user who logged in, and a logout answered 200 adds
   an audit row of type "logout_success" for the user who logged out. *)
C21_SuccessIsAudited ==
    [][ /\ resp'.op = "login" /\ resp'.status = 200
            => audit_rows_added(activity_logs, activity_logs',
                                "login_success", resp'.user_id) # {}
        /\ resp'.op = "logout" /\ resp'.status = 200
            => audit_rows_added(activity_logs, activity_logs',
                                "logout_success", resp'.user_id) # {}
      ]_vars

\* The three places where UserService.authenticate_user gives up
LoginFailureCauses == {"lookup", "password", "status"}

\* Where authenticate_user gives up on these credentials ("none": nowhere)
login_failure_cause(email, password) ==
    LET user == user_by_email(email) IN
    IF user = NoUser THEN "lookup"
    ELSE IF ~verify_password(password, user.hashed_password) THEN "password"
    ELSE IF user.status = "SUSPENDED" THEN "status"
    ELSE "none"

\* The activity type authenticate_user hands to log_activity for each cause
login_failure_event(cause) ==
    IF cause = "status" THEN "login_blocked" ELSE "login_failed"

(* C22 (the claim as stated): a login that fails at user lookup, at password
   verification or at the status gate issues no tokens and adds no session;
   it adds one audit row, of the event type of its cause; and the event
   types of the three causes differ from one another. *)
C22_FailedLoginIsTerminalAndAudited ==
    [][ \A e \in Emails, p \in Passwords :
          LET cause == login_failure_cause(e, p) IN
          login(e, p) /\ cause # "none"
            => /\ sessions' = sessions
               /\ issued' = issued
               /\ resp'.access_token = NoToken
               /\ resp'.refresh_token = NoToken
               /\ Len(activity_logs') = Len(activity_logs) + 1
               /\ activity_logs'[Len(activity_logs')].activity_type =
                     login_failure_event(cause)
               /\ \A other \in LoginFailureCauses \ {cause} :
                     login_failure_event(other) # login_failure_event(cause)
      ]_vars

(* C22, the part that holds: a failed login is terminal. *)
C22_FailedLoginIsTerminal ==
    [][ resp'.op = "login" /\ resp'.status \in {401, 403}
            => /\ sessions' = sessions
               /\ issued' = issued
               /\ resp'.access_token = NoToken
               /\ resp'.refresh_token = NoToken
      ]_vars

(* C23 (the claim as stated): when log_activity is called with an actor
   (current_user) and a target that both have a staff profile, the audit row
   is written exactly when RestrictionService.enforce allows the actor to
   "view_logs" on the target, and when it does not allow, the call fails with
   403 and no row is written. *)
C23_LogWrittenIffViewLogsAllowed ==
    [][ ( /\ verdict'.op = "log_activity"
          /\ verdict'.actor # NoStaff
          /\ verdict'.target # NoStaff )
        => LET allowed == enforce(verdict'.actor, verdict'.target,
                                  "view_logs").status = 200
           IN  /\ allowed <=> Len(activity_logs') = Len(activity_logs) + 1
               /\ ~allowed => /\ verdict'.status = 403
                              /\ activity_logs' = activity_logs
      ]_vars

(* C23, what the code does in that case: the call fails with 400
   "Unsupported action" and writes nothing. *)
C23_LogCallWithTargetIs400 ==
    [][ ( /\ verdict'.op = "log_activity"
          /\ verdict'.actor # NoStaff
          /\ verdict'.target # NoStaff )
        => /\ verdict'.status = 400
           /\ activity_logs' = activity_logs
      ]_vars

\* log_activity was called with an actor and a target that have a staff
\* profile
C23_Reached ==
    /\ verdict.op = "log_activity"
    /\ verdict.actor # NoStaff
    /\ verdict.target # NoStaff

\* The last response is that of a direct create_session that succeeded
session_created ==
    resp.op = "create_session" /\ resp.status = 201

\* The row the last create_session stored
created_row ==
    sessions[CHOOSE i \in DOMAIN sessions :
                sessions[i].refresh_token = resp.refresh_token]

(* C24: when create_session is given an expiry without a timezone, the
   expiry of the session read back is in UTC and has the same wall-clock
   reading; when it is given an expiry that carries a timezone, the instant
   stored (and read back) is the instant given, with no adjustment. *)
C24_NaiveExpiryBecomesUtc ==
    session_created =>
        /\ ~resp.session_in.aware
              => /\ resp.expires_at.aware
                 /\ resp.expires_at.utcoffset = 0
                 /\ resp.expires_at.wall = resp.session_in.wall
        /\ resp.session_in.aware
              => /\ created_row.expires_at = timestamptz(resp.session_in)
                 /\ timestamptz(resp.expires_at) = timestamptz(resp.session_in)

\* A session was created from a naive expiry a refresh lifetime ahead
C24_Witness ==
    /\ session_created
    /\ ~resp.session_in.aware
    /\ resp.session_in.wall = now + timedelta_days(REFRESH_TOKEN_EXPIRE_DAYS)
    /\ created_row.is_valid

(* C25 (the claim as stated): get_user_by_id with an id that matches no
   user answers 404, whoever calls. *)
C25_UnknownIdIs404 ==
    ( /\ resp.op = "get_user_by_id"
      /\ ~\E u \in users : u.id = resp.user_id )
    => resp.status = 404

(* C25, what the code answers: 500 "Error retrieving user". *)
C25_UnknownIdIs500 ==
    ( /\ resp.op = "get_user_by_id"
      /\ ~\E u \in users : u.id = resp.user_id )
    => resp.status = 500 /\ resp.detail = "Error retrieving user"

\* get_user_by_id was asked for an id no user has
C25_Reached ==
    /\ resp.op = "get_user_by_id"
    /\ users # {}
    /\ ~\E u \in users : u.id = resp.user_id

\* The step is a call of UserService.update_user that returned the user
update_succeeded ==
    resp'.op = "UserService.update_user" /\ resp'.status = 200

(* C26: a call of update_user that succeeds leaves the username, the email
   and the phone number of the target user as they were, whatever the
   payload asks for, and leaves every other user alone. *)
C26_UpdateKeepsUsername ==
    [][ update_succeeded =>
          \E u \in users, v \in users' :
             /\ u.id = resp'.user_id
             /\ v.id = u.id
             /\ v.username = u.username
             /\ v.email = u.email
             /\ v.phone_number = u.phone_number
             /\ users' \ {v} = users \ {u}
      ]_vars

\* An update that asked for a new username succeeded, and the user has the
\* username it was created with
C26_Witness ==
    /\ resp.op = "UserService.update_user"
    /\ resp.status = 200
    /\ resp.user_in.username = "updated_name"
    /\ user_by_id(resp.user_id).username \in {a.username : a \in Accounts}

\* No two users share a username or an email
unique_users(table) ==
    \A u \in table, v \in table :
        u # v => u.username # v.username /\ u.email # v.email /\ u.id # v.id

\* The step is an update_user whose payload asks for an email that another
\* user has
update_asks_taken_email ==
    /\ resp'.op = "UserService.update_user"
    /\ \E u \in users : u.id # resp'.user_id /\ u.email = resp'.user_in.email

\* ... and for a username that another user has
update_asks_taken_username ==
    /\ resp'.op = "UserService.update_user"
    /\ \E u \in users : u.id # resp'.user_id /\ u.username = resp'.user_in.username

\* The step is a create_user with a username or an email in use, and it
\* fails and adds no user
create_in_use_fails ==
    \A a \in UserCreates :
        ( /\ create_user(a)
          /\ \E u \in users : u.username = a.username \/ u.email = a.email )
        => resp'.status >= 400 /\ users' = users

(* C27 (as amended): after every step no two users share a username or an
   email; a create_user with a username or email in use fails and adds no
   user; an update_user asking for an email that another user has fails with
   400 and changes nothing, with the detail "Email already registered"
   unless the payload also asks for a username that another user has, and
   then with the detail "Username already taken". *)
C27_UsernamesAndEmailsStayUnique ==
    [][ /\ unique_users(users')
        /\ create_in_use_fails
        /\ update_asks_taken_email
              => /\ resp'.status = 400
                 /\ users' = users
                 /\ resp'.detail = IF update_asks_taken_username
                                   THEN "Username already taken"
                                   ELSE "Email already registered"
      ]_vars

(* C27 (the claim as stated): the same, with the detail "Email already
   registered" for every update_user that asks for an email another user
   has. *)
C27_TakenEmailIsAlwaysEmailError ==
    [][ /\ unique_users(users')
        /\ create_in_use_fails
        /\ update_asks_taken_email
              => /\ resp'.status = 400
                 /\ users' = users
                 /\ resp'.detail = "Email already registered"
      ]_vars

\* An update asking for another user's email was refused, and a create_user
\* with a username in use was refused before it
C27_Witness ==
    /\ resp.op = "UserService.update_user"
    /\ resp.status = 400
    /\ resp.detail = "Email already registered"
    /\ \E u \in users : u.id # resp.user_id /\ u.email = resp.user_in.email
    /\ Cardinality(users) = 2

(* C28 (the claim as stated): once five logins for an email have failed, the
   next login for that email that fails is answered 429. *)
C28_SixthFailedLoginIs429 ==
    [][ \A e \in Emails, p \in Passwords :
          ( /\ login_counted(e, p)
            /\ failed_attempts[e] >= FAILED_ATTEMPTS_LIMIT
            /\ ~good_credentials(e, p) )
          => resp'.status = 429
      ]_vars

(* C28, what the code does: a failed login is answered 401 however many
   failed before it. *)
C28_FailedLoginIsAlways401 ==
    [][ \A e \in Emails, p \in Passwords :
          login_counted(e, p) /\ ~good_credentials(e, p) => resp'.status = 401
      ]_vars

\* Six logins for the email of a user failed
C28_Reached ==
    /\ users # {}
    /\ \E u \in users : failed_attempts[u.email] = FAILED_ATTEMPTS_LIMIT + 1

\* Two calls of invalidate_session that found the same session, each before
\* the other committed, and that have both ended
concurrent_invalidations ==
    { p \in invalidations \X invalidations :
        /\ p[1].id # p[2].id
        /\ p[1].row # 0
        /\ p[1].row = p[2].row
        /\ p[1].id \in p[2].saw
        /\ p[1].status # 0
        /\ p[2].status # 0 }

(* C29: when two invalidate_session calls for the same user and refresh
   token both read the session before either commits, both end in success
   and the session's is_valid is false. *)
C29_ConcurrentInvalidationsBothSucceed ==
    \A p \in concurrent_invalidations :
        /\ p[1].status = 200
        /\ p[2].status = 200
        /\ p[1].user_id = p[2].user_id
        /\ p[1].refresh_token = p[2].refresh_token
        /\ ~sessions[p[1].row].is_valid

\* Two such calls have ended
C29_Witness ==
    /\ concurrent_invalidations # {}
    /\ \A c \in invalidations : c.status = 200

(* C30: in every step of login, logout and validate_refresh_token (and of
   the other account requests) every session row stays in the table with
   its user, refresh token and expiry, and a row whose is_valid is false
   keeps it false. *)
C30_SessionRowsOnlyLoseValidity ==
    [][ /\ Len(sessions') >= Len(sessions)
        /\ \A i \in DOMAIN sessions :
              /\ sessions'[i].user_id = sessions[i].user_id
              /\ sessions'[i].refresh_token = sessions[i].refresh_token
              /\ sessions'[i].expires_at = sessions[i].expires_at
              /\ ~sessions[i].is_valid => ~sessions'[i].is_valid
      ]_vars

\* After a logout invalidated a session, its user logged in again: the
\* table holds the invalid row and the new valid one
C30_Witness ==
    /\ resp.op = "login"
    /\ resp.status = 200
    /\ \E i \in DOMAIN sessions :
          /\ ~sessions[i].is_valid
          /\ sessions[i].user_id = resp.user_id
    /\ \E i \in DOMAIN sessions :
          /\ sessions[i].is_valid
          /\ sessions[i].refresh_token = resp.refresh_token

\* The verdicts that are errors of create_staff (its check included),
\* update_staff and delete_staff
staff_mutation_failed(v) ==
    /\ v.op \in {"ensure_single_superuser", "create_staff", "update_staff",
                 "delete_staff"}
    /\ v.status >= 400

(* C31: a step in which create_staff, update_staff or delete_staff ends in
   an error leaves the staffs table as it was, and a step in which
   create_session ends in an error leaves the sessions table as it was. *)
C31_FailedMutationChangesNothing ==
    [][ /\ staff_mutation_failed(verdict') => staffs' = staffs
        /\ (resp'.op = "create_session" /\ resp'.status >= 400)
              => sessions' = sessions
      ]_vars

\* A create_staff by an actor failed at its commit, and the table holds the
\* one row it held
C31_Witness ==
    /\ verdict.op = "create_staff"
    /\ verdict.status >= 400
    /\ verdict.actor # NoStaff
    /\ Cardinality(staffs) = 1

\* The action update_staff and delete_staff put to the restriction engine
enforced_action(v) == IF v.op = "update_staff" THEN "edit" ELSE "delete"

\* An update_staff or delete_staff request on an existing row whose actor
\* the restriction engine denies for that row and action
denied_staff_request(v) ==
    /\ v.op \in {"update_staff", "delete_staff"}
    /\ v.actor # NoStaff
    /\ v.target # NoStaff
    /\ enforce(v.actor, v.target, enforced_action(v)).status # 200

(* C32: a step of an update_staff or delete_staff request whose actor the
   restriction engine denies leaves the staffs table as it was, and a step
   that changes the staffs table is a staff mutation whose actor, if it has
   one, the engine allows for the row and action ("create", for the row a
   create_staff adds), a create_staff doing so only with a role and
   department ensure_single_superuser accepts. *)
C32_MutationOnlyWhenAllowed ==
    [][ /\ denied_staff_request(verdict') => staffs' = staffs
        /\ staffs' # staffs =>
              /\ verdict'.op \in {"create_staff", "update_staff", "delete_staff"}
              /\ ~denied_staff_request(verdict')
              /\ verdict'.op = "create_staff" =>
                    /\ ensure_single_superuser(verdict'.role,
                                               verdict'.department).status = 200
                    /\ verdict'.actor # NoStaff =>
                          enforce(verdict'.actor, verdict'.target,
                                  "create").status = 200
      ]_vars

\* A delete_staff request was made by an actor the engine denies, and the
\* row is still there
C32_Witness ==
    /\ verdict.op = "delete_staff"
    /\ denied_staff_request(verdict)
    /\ verdict.target \in staffs

\* The ids of the rows of a staffs table that hold role SUPERUSER, and of
\* those that hold department SUPERUSER
superuser_role_holders(table) ==
    {s.id : s \in {t \in table : t.role = model_value("SUPERUSER")}}

superuser_department_holders(table) ==
    {s.id : s \in {t \in table : t.department = model_value("SUPERUSER")}}

(* C33: an update_staff step leaves every row of role SUPERUSER as it was,
   and the rows that hold role SUPERUSER and the rows that hold department
   SUPERUSER are the same after it as before it. *)
C33_UpdateKeepsSuperuserHolders ==
    [][ verdict'.op = "update_staff"
        => /\ \A s \in staffs : s.role = model_value("SUPERUSER") => s \in staffs'
           /\ superuser_role_holders(staffs') = superuser_role_holders(staffs)
           /\ superuser_department_holders(staffs')
                 = superuser_department_holders(staffs)
      ]_vars

\* update_staff was asked to give another role to the row of role SUPERUSER
C33_Witness ==
    /\ verdict.op = "update_staff"
    /\ verdict.target.role = model_value("SUPERUSER")
    /\ verdict.role = "ADMIN"
    /\ verdict.target \in staffs

\* The last logout reached invalidate_session: its caller was authenticated
\* and sent a refresh token
invalidate_session_called(r) ==
    /\ r.op = "logout"
    /\ r.user_id # 0
    /\ r.refresh_token # NoToken

\* The valid sessions that hold the refresh token of response r and belong
\* to a user other than its caller
sessions_of_others_with_token(r) ==
    { i \in DOMAIN sessions :
        /\ sessions[i].refresh_token = r.refresh_token
        /\ sessions[i].user_id # r.user_id
        /\ sessions[i].is_valid }

(* C34: a step in which invalidate_session(token, user) is called changes at
   most one session row, and none that has another token or another owner;
   when the token is that of a valid session of a different user and of no
   valid session of the caller, the call answers 404 "Session not found or
   already invalidated" and that session stays valid. *)
C34_InvalidateTouchesOnlyItsSession ==
    [][ invalidate_session_called(resp')
        => /\ Len(sessions') = Len(sessions)
           /\ \A i \in DOMAIN sessions :
                 (\/ sessions[i].refresh_token # resp'.refresh_token
                  \/ sessions[i].user_id # resp'.user_id)
                 => sessions'[i] = sessions[i]
           /\ Cardinality({i \in DOMAIN sessions : sessions'[i] # sessions[i]}) <= 1
           /\ ( /\ sessions_of_others_with_token(resp') # {}
                /\ active_sessions(resp'.refresh_token, resp'.user_id) = {} )
              => /\ resp'.status = 404
                 /\ resp'.detail = "Session not found or already invalidated"
                 /\ sessions' = sessions
      ]_vars

\* A logout carried the refresh token of another user's valid session, and
\* that session is still valid
C34_Witness ==
    /\ invalidate_session_called(resp)
    /\ resp.status = 404
    /\ sessions_of_others_with_token(resp) # {}

\* Why the refresh token of the last validate_refresh_token call is not
\* good for the user it was validated for
refresh_token_fault(r) ==
    LET rows == {i \in DOMAIN sessions : sessions[i].refresh_token = r.refresh_token}
        own == {i \in rows : sessions[i].user_id = r.user_id}
    IN  IF rows = {} THEN "no session"
        ELSE IF own = {} THEN "session of another user"
        ELSE IF \A i \in own : ~sessions[i].is_valid THEN "session invalidated"
        ELSE IF \A i \in own : sessions[i].is_valid =>
                                  session_expired(sessions[i].expires_at, now)
        THEN "session expired"
        ELSE "none"

(* C35: validate_refresh_token answers 401 "Invalid or expired refresh
   token" alike for a refresh token that has no session, for one whose
   session was invalidated, for one whose session belongs to another user
   and for one whose session has expired. *)
C35_RefreshFaultsAnswerAlike ==
    ( /\ resp.op = "validate_refresh_token"
      /\ refresh_token_fault(resp) # "none" )
    => /\ resp.status = 401
       /\ resp.detail = "Invalid or expired refresh token"

\* An expired session's token was refused while the store also holds an
\* invalidated session
C35_Witness ==
    /\ resp.op = "validate_refresh_token"
    /\ refresh_token_fault(resp) = "session expired"
    /\ resp.status = 401
    /\ \E i \in DOMAIN sessions : ~sessions[i].is_valid

\* The last step deleted the user named in the response
user_deleted(r) ==
    r.op = "delete_user" /\ r.status = 204

(* C36: a step that deletes a user leaves no KYC row and no activity-log
   row of that user, keeps the KYC and activity-log rows of the others, and
   keeps every session row and every API-key row, those of the deleted user
   with no owner (user_id NULL) and otherwise as they were. *)
C36_DeleteUserOrphansSessionsAndKeys ==
    [][ (user_deleted(resp') /\ deleted_users' # deleted_users)
        => LET id == resp'.user_id IN
           /\ children_of(kyc_verifications', id) = <<>>
           /\ children_of(activity_logs', id) = <<>>
           /\ kyc_verifications' = SelectSeq(kyc_verifications,
                                             LAMBDA row : row.user_id # id)
           /\ activity_logs' = SelectSeq(activity_logs,
                                         LAMBDA row : row.user_id # id)
           /\ Len(sessions') = Len(sessions)
           /\ Len(api_keys') = Len(api_keys)
           /\ \A i \in DOMAIN sessions :
                 sessions'[i] = IF sessions[i].user_id = id
                                THEN [sessions[i] EXCEPT !.user_id = NoUser.id]
                                ELSE sessions[i]
           /\ \A i \in DOMAIN api_keys :
                 api_keys'[i] = IF api_keys[i].user_id = id
                                THEN [api_keys[i] EXCEPT !.user_id = NoUser.id]
                                ELSE api_keys[i]
      ]_vars

\* A user who had a KYC row, an audit row, a session and an API key was
\* deleted: the session and the key are in the store without an owner
C36_Witness ==
    /\ user_deleted(resp)
    /\ \E d \in deleted_users :
          /\ d.id = resp.user_id
          /\ d.kyc_verifications > 0
          /\ d.activity_logs > 0
    /\ \E i \in DOMAIN sessions : sessions[i].user_id = NoUser.id
    /\ \E i \in DOMAIN api_keys : api_keys[i].user_id = NoUser.id

\* The rows of table after that have role ADMIN and did not have it in
\* table before (new rows, and rows promoted)
new_admin_rows(before, after) ==
    { s \in after :
        /\ s.role = model_value("ADMIN")
        /\ ~\E t \in before : t.id = s.id /\ t.role = model_value("ADMIN") }

(* C37 (the claim as stated): a step in which a Staff row comes to have role
   ADMIN, as a new row or by promotion, is a step of an operation whose
   actor has role SUPERUSER. *)
C37_AdminOnlyThroughSuperuser ==
    [][ new_admin_rows(staffs, staffs') # {}
        => verdict'.actor.role = model_value("SUPERUSER")
      ]_vars

(* C37, what the code does: every step that brings an ADMIN row is a
   create_staff without an actor. *)
C37_AdminOnlyWithoutActor ==
    [][ new_admin_rows(staffs, staffs') # {}
        => /\ verdict'.op = "create_staff"
           /\ verdict'.actor = NoStaff
           /\ verdict'.status = 201
      ]_vars

\* create_staff without an actor stored a row of role ADMIN
C37_Reached ==
    /\ verdict.op = "create_staff"
    /\ verdict.actor = NoStaff
    /\ verdict.status = 201
    /\ verdict.target.role = model_value("ADMIN")
    /\ verdict.target \in staffs

\* The users whose username or email is the identifier of the last
\* authenticate_user call
identified_users(r) ==
    {u \in users : u.username = r.user_in.username \/ u.email = r.user_in.username}

(* C38 (the claim as stated): AuthService.authenticate_user ends either by
   returning one user whose username or email is the identifier and whose
   password matches, or with 401 "Invalid login credentials". *)
C38_AuthenticateReturnsUserOr401 ==
    resp.op = "AuthService.authenticate_user"
    => \/ /\ resp.status = 200
          /\ \E u \in identified_users(resp) :
                /\ u.id = resp.user_id
                /\ verify_password(resp.user_in.password, u.hashed_password)
       \/ /\ resp.status = 401
          /\ resp.detail = "Invalid login credentials"

(* C38, what the code does: when the identifier is one user's username and
   another user's email the call ends in neither, but in an unhandled
   MultipleResultsFound (500); in every other state it ends as claimed. *)
C38_AmbiguousIdentifierIs500 ==
    resp.op = "AuthService.authenticate_user"
    => IF Cardinality(identified_users(resp)) > 1
       THEN resp.status = 500
       ELSE \/ /\ resp.status = 200
               /\ \E u \in identified_users(resp) :
                     /\ u.id = resp.user_id
                     /\ verify_password(resp.user_in.password, u.hashed_password)
            \/ /\ resp.status = 401
               /\ resp.detail = "Invalid login credentials"

\* authenticate_user was called with an identifier that is one user's
\* username and another user's email
C38_Reached ==
    /\ resp.op = "AuthService.authenticate_user"
    /\ \E u, v \in identified_users(resp) :
          u.id # v.id /\ u.email = resp.user_in.username
                      /\ v.username = resp.user_in.username

\* The access tokens that logins have returned
issued_access_tokens == {p.access_token : p \in issued}

(* C39: the access token of a successful logout authenticates after that
   logout as before it, and in every step that leaves the users as they are
   (logouts, logins, validations, time passing) an issued access token that
   authenticated stops doing so only by its own expiry. *)
C39_LogoutKeepsAccessToken ==
    [][ /\ (resp'.op = "logout" /\ resp'.status = 200 /\ sessions' # sessions)
           => \A t \in BearerTokens :
                 t = resp'.access_token => get_current_user(t)'.status = 200
        /\ users' = users
           => \A t \in issued_access_tokens :
                 ( /\ get_current_user(t).status = 200
                   /\ get_current_user(t)'.status # 200 )
                 => get_current_user(t)'.detail = "Token has expired"
      ]_vars

\* After its logout, the same access token was used for another protected
\* request and authenticated: the request got as far as the session lookup
C39_Witness ==
    /\ resp.op = "logout"
    /\ resp.status = 404
    /\ resp.user_id # 0
    /\ \E p \in issued :
          /\ p.access_token = resp.access_token
          /\ p.refresh_token = resp.refresh_token
          /\ \E i \in DOMAIN sessions :
                /\ sessions[i].refresh_token = p.refresh_token
                /\ ~sessions[i].is_valid

\* The last call was a get_staff of an existing row by an actor whom the
\* restriction engine allows to view it
allowed_view_by_actor(v) ==
    /\ v.op = "get_staff"
    /\ v.actor # NoStaff
    /\ v.target # NoStaff
    /\ enforce(v.actor, v.target, "view").status = 200

(* C40 (the claim as stated): get_staff called by an actor whom the
   restriction engine allows to view the target returns the target: the
   audit step after the permission check does not fail the request. *)
C40_AllowedViewReturnsStaff ==
    allowed_view_by_actor(verdict) => verdict.status = 200

(* C40, what the code does: the audit step fails every such request with
   400 "Unsupported action". *)
C40_AllowedViewIs400 ==
    allowed_view_by_actor(verdict)
    => /\ verdict.status = 400
       /\ verdict.detail = "Unsupported action"

\* get_staff was called by an actor allowed to view the target
C40_Reached ==
    /\ allowed_view_by_actor(verdict)
    /\ verdict.target \in staffs

====
